---- MODULE Spec2Model ----
(***************************************************************************)
(* Model of gonetica's concurrent inference-serving layer: the Node and    *)
(* Network wrappers around the Netica engine (node.go, network.go,         *)
(* environment.go) and the JSON request handler postNetNode (gncli/cmd/    *)
(* serveJSON.go).                                                          *)
(*                                                                         *)
(* Strings are sequences of one-character strings, so that the parsers     *)
(* (strconv.ParseFloat, strconv.Atoi) and the formatters (FormatFloat,     *)
(* Sprintf "#%d") are computed and not assumed.                            *)
(***************************************************************************)
EXTENDS Integers, Sequences, FiniteSets, TLC

\* ------------------------------------------------------------------------
\* Characters and strings
\* ------------------------------------------------------------------------

Digits == <<"0", "1", "2", "3", "4", "5", "6", "7", "8", "9">>

IsDigit(c) == \E i \in 1..Len(Digits) : Digits[i] = c

DigitVal(c) == (CHOOSE i \in 1..Len(Digits) : Digits[i] = c) - 1

\* ASCII lower-casing of the letters the parsers compare case-insensitively.
ToLower(c) ==
    CASE c = "I" -> "i"
      [] c = "N" -> "n"
      [] c = "F" -> "f"
      [] c = "A" -> "a"
      [] c = "T" -> "t"
      [] c = "Y" -> "y"
      [] c = "E" -> "e"
      [] c = "B" -> "b"
      [] c = "C" -> "c"
      [] c = "D" -> "d"
      [] c = "O" -> "o"
      [] c = "P" -> "p"
      [] c = "X" -> "x"
      [] OTHER -> c

HexLetters == <<"a", "b", "c", "d", "e", "f">>

IsHexLetter(c) == \E i \in 1..Len(HexLetters) : HexLetters[i] = ToLower(c)

\* Value of a hexadecimal digit.
HexVal(c) ==
    IF IsDigit(c) THEN DigitVal(c)
    ELSE 9 + (CHOOSE i \in 1..Len(HexLetters) : HexLetters[i] = ToLower(c))

\* s[from..], the suffix of s that starts at index from (1-based).
Drop(s, from) == SubSeq(s, from, Len(s))

\* Number of leading digits of s.
RECURSIVE DigitRun(_)
DigitRun(s) ==
    IF s # <<>> /\ IsDigit(Head(s)) THEN 1 + DigitRun(Tail(s)) ELSE 0

\* Value of a string of digits.
RECURSIVE DigitsToNat(_)
DigitsToNat(s) ==
    IF s = <<>> THEN 0
    ELSE 10 * DigitsToNat(SubSeq(s, 1, Len(s) - 1)) + DigitVal(s[Len(s)])

\* Decimal digits of a natural number, most significant first.
RECURSIVE NatToDigits(_)
NatToDigits(n) ==
    IF n < 10 THEN <<Digits[n + 1]>>
    ELSE Append(NatToDigits(n \div 10), Digits[(n % 10) + 1])

\* strconv.Itoa, fmt.Sprintf("%d")
Itoa(n) == IF n < 0 THEN <<"-">> \o NatToDigits(-n) ELSE NatToDigits(n)

\* strings.HasPrefix(s, "#") and strings.TrimPrefix(s, "#")
HasHashPrefix(s) == s # <<>> /\ Head(s) = "#"

\* A string of digits without its leading zeros.
RECURSIVE TrimLeadingZeros(_)
TrimLeadingZeros(s) ==
    IF s # <<>> /\ Head(s) = "0" THEN TrimLeadingZeros(Tail(s)) ELSE s

\* s < t for strings of digits of the same length.
RECURSIVE DigitsLess(_, _)
DigitsLess(s, t) ==
    IF s = <<>> THEN FALSE
    ELSE IF Head(s) # Head(t) THEN DigitVal(Head(s)) < DigitVal(Head(t))
    ELSE DigitsLess(Tail(s), Tail(t))

\* The low 32 bits, as the halves <<high 16 bits, low 16 bits>>, of
\* 10 * h + d for the 32 bits h.
Push32(h, d) ==
    <<(h[1] * 10 + (h[2] * 10 + d) \div 65536) % 65536, (h[2] * 10 + d) % 65536>>

\* The low 32 bits of the value of a string of digits.
RECURSIVE Low32(_)
Low32(s) ==
    IF s = <<>> THEN <<0, 0>>
    ELSE Push32(Low32(SubSeq(s, 1, Len(s) - 1)), DigitVal(s[Len(s)]))

\* The signed 32-bit integer of the bits h.
Signed32(h) ==
    IF h[1] >= 32768 THEN (h[1] - 65536) * 65536 + h[2] ELSE h[1] * 65536 + h[2]

\* The 32 bits of -v for the 32 bits h of v.
Negate32(h) ==
    IF h[2] = 0 THEN <<(65536 - h[1]) % 65536, 0>>
    ELSE <<65535 - h[1], 65536 - h[2]>>

\* The int v as a C int (C.state_bn(v), a conversion that keeps the low 32
\* bits), from the digits of |v|.
CInt(neg, digits) ==
    Signed32(IF neg THEN Negate32(Low32(digits)) ELSE Low32(digits))

\* strconv.Atoi: an optional sign and one or more decimal digits; a value
\* outside the 64 bits of an int is the error ErrRange.  val is the int
\* where it fits 32 bits; wide tells that it does not, and val is then the
\* int as a C int.
Atoi(s) ==
    LET signed == s # <<>> /\ Head(s) \in {"+", "-"}
        neg    == signed /\ Head(s) = "-"
        body   == IF signed THEN Tail(s) ELSE s
        digits == TrimLeadingZeros(body)
        max64  == <<"9","2","2","3","3","7","2","0","3","6","8","5","4","7","7","5","8","0",
                    IF neg THEN "8" ELSE "7">>
        max32  == <<"2","1","4","7","4","8","3","6","4", IF neg THEN "8" ELSE "7">>
        fits32 == Len(digits) < 10 \/ (Len(digits) = 10 /\ ~DigitsLess(max32, digits))
    IN  IF body = <<>> \/ DigitRun(body) # Len(body)
        THEN [ok |-> FALSE, val |-> 0, wide |-> FALSE]
        ELSE IF Len(digits) > 19 \/ (Len(digits) = 19 /\ DigitsLess(max64, digits))
        THEN [ok |-> FALSE, val |-> 0, wide |-> FALSE]
        ELSE [ok |-> TRUE, val |-> CInt(neg, digits), wide |-> ~fits32]

\* ------------------------------------------------------------------------
\* Real numbers: finite decimals neg * mant * 10^exp kept normalised (mant
\* has no trailing zero, zero has exp 0), the infinities and NaN.
\* ------------------------------------------------------------------------

\* A string of digits without its trailing zeros.
RECURSIVE TrimTrailingZeros(_)
TrimTrailingZeros(s) ==
    IF s # <<>> /\ s[Len(s)] = "0"
    THEN TrimTrailingZeros(SubSeq(s, 1, Len(s) - 1))
    ELSE s

\* The number digits * 10^exp with its sign; mant holds the digits without
\* zeros at either end, and zero is <<"0">> with the exponent 0.
Dec(neg, digits, exp) ==
    LET sig == TrimLeadingZeros(TrimTrailingZeros(digits))
    IN  IF sig = <<>>
        THEN [k |-> "num", neg |-> neg, mant |-> <<"0">>, exp |-> 0]
        ELSE [k |-> "num", neg |-> neg, mant |-> sig,
              exp |-> exp + Len(digits) - Len(TrimTrailingZeros(digits))]

Num(neg, mant, exp) == Dec(neg, NatToDigits(mant), exp)

Inf(neg) == [k |-> "inf", neg |-> neg, mant |-> <<"0">>, exp |-> 0]

NaN == [k |-> "nan", neg |-> FALSE, mant |-> <<"0">>, exp |-> 0]

NotParsed == [ok |-> FALSE, val |-> Num(FALSE, 0, 0)]

\* Length of the common prefix of s and word, ignoring case.
RECURSIVE CommonPrefixLenIgnoreCase(_, _)
CommonPrefixLenIgnoreCase(s, word) ==
    IF s # <<>> /\ word # <<>> /\ ToLower(Head(s)) = Head(word)
    THEN 1 + CommonPrefixLenIgnoreCase(Tail(s), Tail(word))
    ELSE 0

\* strconv's special(): "inf", "infinity" (optionally signed) and "nan", in
\* any case; the number of characters consumed is n (0 when not special).
Special(s) ==
    IF s = <<>> THEN [n |-> 0, val |-> NaN]
    ELSE
    LET signed == Head(s) \in {"+", "-"}
        neg    == Head(s) = "-"
        rest   == IF signed THEN Tail(s) ELSE s
        nsign  == IF signed THEN 1 ELSE 0
        ninf   == CommonPrefixLenIgnoreCase(rest, <<"i","n","f","i","n","i","t","y">>)
        n      == IF 3 < ninf /\ ninf < 8 THEN 3 ELSE ninf
    IN  IF signed \/ ToLower(Head(s)) = "i"
        THEN IF n = 3 \/ n = 8
             THEN [n |-> nsign + n, val |-> Inf(neg)]
             ELSE [n |-> 0, val |-> NaN]
        ELSE IF ToLower(Head(s)) = "n"
                /\ CommonPrefixLenIgnoreCase(s, <<"n","a","n">>) = 3
        THEN [n |-> 3, val |-> NaN]
        ELSE [n |-> 0, val |-> NaN]

\* The one value of a set of one value.
Only(S) == CHOOSE v \in S : TRUE

\* Natural numbers of any size, as strconv's arithmetic needs them: the
\* digits in base 10000, the lowest first, and none for zero.  The
\* operations work on the two halves of a number in turn, which keeps
\* their nesting shallow; Only binds the value of the first half.

\* x unless it is 0, and then y.
FirstNonZero(x, y) == IF x # 0 THEN x ELSE y

\* The highest of the places lo..hi of a that holds a digit other than 0,
\* and 0 when there is none.
RECURSIVE TopPlace(_, _, _)
TopPlace(a, lo, hi) ==
    IF lo > hi THEN 0
    ELSE IF lo = hi THEN (IF a[lo] # 0 THEN lo ELSE 0)
    ELSE FirstNonZero(TopPlace(a, (lo + hi) \div 2 + 1, hi),
                      TopPlace(a, lo, (lo + hi) \div 2))

\* a without zeros at the top.
BigTrim(a) == SubSeq(a, 1, TopPlace(a, 1, Len(a)))

\* The digits of a * k + c, as many as a has, and the carry, for k and c
\* below 10000.
RECURSIVE MulCarry(_, _, _)
MulCarry(a, k, c) ==
    IF a = <<>> THEN <<a, c>>
    ELSE IF Len(a) = 1
    THEN <<<<(a[1] * k + c) % 10000>>, (a[1] * k + c) \div 10000>>
    ELSE Only({Only({<<lo[1] \o hi[1], hi[2]>> :
                         hi \in {MulCarry(SubSeq(a, Len(a) \div 2 + 1, Len(a)),
                                          k, lo[2])}}) :
                   lo \in {MulCarry(SubSeq(a, 1, Len(a) \div 2), k, c)}})

\* a * k + c, for k and c below 10000.
MulSmall(a, k, c) ==
    Only({BigTrim(IF r[2] = 0 THEN r[1] ELSE Append(r[1], r[2])) :
              r \in {MulCarry(a, k, c)}})

\* The places lo..hi of a - b - c and the borrow, for a borrow c of 0 or 1.
RECURSIVE SubBorrow(_, _, _, _, _)
SubBorrow(a, b, lo, hi, c) ==
    IF lo = hi
    THEN LET t == a[lo] - (IF lo <= Len(b) THEN b[lo] ELSE 0) - c
         IN  <<<<(t + 10000) % 10000>>, IF t < 0 THEN 1 ELSE 0>>
    ELSE Only({Only({<<low[1] \o high[1], high[2]>> :
                         high \in {SubBorrow(a, b, (lo + hi) \div 2 + 1, hi,
                                             low[2])}}) :
                   low \in {SubBorrow(a, b, lo, (lo + hi) \div 2, c)}})

\* a - b, for a >= b.
BigSub(a, b) ==
    IF a = <<>> THEN a ELSE BigTrim(SubBorrow(a, b, 1, Len(a), 0)[1])

\* -1, 0 or 1 as a is less than, equal to or greater than b in the places
\* lo..hi.
RECURSIVE CmpPlaces(_, _, _, _)
CmpPlaces(a, b, lo, hi) ==
    IF lo > hi THEN 0
    ELSE IF lo = hi
    THEN (IF a[lo] < b[lo] THEN -1 ELSE IF a[lo] > b[lo] THEN 1 ELSE 0)
    ELSE FirstNonZero(CmpPlaces(a, b, (lo + hi) \div 2 + 1, hi),
                      CmpPlaces(a, b, lo, (lo + hi) \div 2))

\* -1, 0 or 1 as a is less than, equal to or greater than b.
BigCmp(a, b) ==
    IF Len(a) # Len(b) THEN (IF Len(a) < Len(b) THEN -1 ELSE 1)
    ELSE CmpPlaces(a, b, 1, Len(a))

\* a * k^n, for k below 10000.
RECURSIVE Scale(_, _, _)
Scale(a, k, n) ==
    IF n = 0 THEN a
    ELSE IF n = 1 THEN MulSmall(a, k, 0)
    ELSE Only({Scale(half, k, n - n \div 2) : half \in {Scale(a, k, n \div 2)}})

\* a * 2^n, a * 5^n and a * 10^n.
Times2(a, n) == Scale(Scale(a, 8192, n \div 13), 2, n % 13)

Times5(a, n) == Scale(Scale(a, 3125, n \div 5), 5, n % 5)

Times10(a, n) ==
    IF a = <<>> THEN a ELSE [i \in 1..(n \div 4) |-> 0] \o Scale(a, 10, n % 4)

\* The value of a string of decimal digits without zeros in front.
BigOfDigits(s) ==
    [i \in 1..((Len(s) + 3) \div 4) |->
        DigitsToNat(SubSeq(s, IF Len(s) - 4 * i + 1 < 1 THEN 1
                              ELSE Len(s) - 4 * i + 1,
                           Len(s) - 4 * (i - 1)))]

\* a * 16^(hi - lo + 1) + the value of the hexadecimal digits lo..hi of s.
RECURSIVE HexOnto(_, _, _, _)
HexOnto(a, s, lo, hi) ==
    IF lo > hi THEN a
    ELSE IF lo = hi THEN MulSmall(a, 16, HexVal(s[lo]))
    ELSE Only({HexOnto(front, s, (lo + hi) \div 2 + 1, hi) :
                   front \in {HexOnto(a, s, lo, (lo + hi) \div 2)}})

\* The value of a string of hexadecimal digits.
HexToBig(s) == HexOnto(<<>>, s, 1, Len(s))

\* k zeros.
Zeros(k) == [i \in 1..k |-> "0"]

\* The decimal digits of a.
BigToDigits(a) ==
    IF a = <<>> THEN <<"0">>
    ELSE TrimLeadingZeros(
             [j \in 1..(4 * Len(a)) |->
                 NatToDigits((a[Len(a) - (j - 1) \div 4]
                              \div <<1000, 100, 10, 1>>[((j - 1) % 4) + 1]) % 10)[1]])

\* The number of decimal digits of a # 0.
DecLen(a) == 4 * (Len(a) - 1) + Len(NatToDigits(a[Len(a)]))

\* s without its underscores.
NoUnderscores(s) == SelectSeq(s, LAMBDA c : c # "_")

\* strconv's underscoreOK, the number proper: saw is the kind of the last
\* character, "0" for a digit or a base prefix, "_" for an underscore, "!"
\* for anything else, "^" at the beginning.
RECURSIVE UnderscoreScan(_, _, _)
UnderscoreScan(s, hex, saw) ==
    IF s = <<>> THEN saw # "_"
    ELSE IF IsDigit(Head(s)) \/ (hex /\ IsHexLetter(Head(s)))
    THEN UnderscoreScan(Tail(s), hex, "0")
    ELSE IF Head(s) = "_"
    THEN saw = "0" /\ UnderscoreScan(Tail(s), hex, "_")
    ELSE saw # "_" /\ UnderscoreScan(Tail(s), hex, "!")

\* strconv's underscoreOK: underscores only between digits or between a
\* base prefix and a digit.
UnderscoreOK(s) ==
    LET body == IF s # <<>> /\ Head(s) \in {"+", "-"} THEN Tail(s) ELSE s
        base == Len(body) >= 2 /\ body[1] = "0"
                /\ ToLower(body[2]) \in {"b", "o", "x"}
    IN  IF base
        THEN UnderscoreScan(Drop(body, 3), ToLower(body[2]) = "x", "0")
        ELSE UnderscoreScan(body, FALSE, "^")

\* Number of leading characters of s that the mantissa loop passes over:
\* digits, hexadecimal digits when the base is 16, and underscores.
RECURSIVE MantissaRun(_, _)
MantissaRun(s, hex) ==
    IF s # <<>> /\ (IsDigit(Head(s)) \/ Head(s) = "_"
                    \/ (hex /\ IsHexLetter(Head(s))))
    THEN 1 + MantissaRun(Tail(s), hex)
    ELSE 0

\* The exponent digits: e = e*10 + digit while e < 10000.
RECURSIVE ExponentValue(_, _)
ExponentValue(s, e) ==
    IF s = <<>> THEN e
    ELSE ExponentValue(Tail(s), IF e < 10000 THEN e * 10 + DigitVal(Head(s)) ELSE e)

\* strconv's readFloat: [sign] [0x] digits [. digits] [e|p [sign] digits],
\* at least one mantissa digit, the exponent is required after a
\* hexadecimal mantissa.  n is the number of characters consumed (0 when
\* there is no number).  The stages pass on the characters used so far, the
\* mantissa digits read and the rest of s.
NoFloat == [n |-> 0, val |-> NaN]

\* The number as read: the mantissa digits (nf of them after the point)
\* times 2^exp for a hexadecimal mantissa, and times 10^exp otherwise.
FloatValue(neg, hex, digits, nf, e) ==
    [neg |-> neg, hex |-> hex, digits |-> digits,
     exp |-> IF hex THEN e - 4 * nf ELSE e - nf]

\* The exponent, after "e" or "p": an optional sign and at least one digit;
\* underscores are passed over after the first digit.
ReadExponent(neg, hex, used, digits, nf, s) ==
    LET esign == s # <<>> /\ Head(s) \in {"+", "-"}
        body  == IF esign THEN Tail(s) ELSE s
        ne    == IF body # <<>> /\ IsDigit(Head(body))
                 THEN MantissaRun(body, FALSE) ELSE 0
        e     == ExponentValue(NoUnderscores(SubSeq(body, 1, ne)), 0)
    IN  IF ne = 0 THEN NoFloat
        ELSE [n   |-> used + 1 + (IF esign THEN 1 ELSE 0) + ne,
              val |-> FloatValue(neg, hex, digits, nf,
                                 IF esign /\ Head(s) = "-" THEN -e ELSE e)]

\* After the mantissa: digits are the mantissa digits, nf of them after
\* the point.
ReadAfterMantissa(neg, hex, used, digits, nf, s) ==
    IF digits = <<>> THEN NoFloat
    ELSE IF s # <<>> /\ ToLower(Head(s)) = (IF hex THEN "p" ELSE "e")
    THEN ReadExponent(neg, hex, used, digits, nf, Tail(s))
    ELSE IF hex THEN NoFloat
    ELSE [n |-> used, val |-> FloatValue(neg, hex, digits, nf, 0)]

\* After the integer digits: an optional point and fraction digits.
ReadFraction(neg, hex, used, digits, s) ==
    IF s # <<>> /\ Head(s) = "."
    THEN LET run  == MantissaRun(Tail(s), hex)
             frac == NoUnderscores(SubSeq(Tail(s), 1, run))
         IN  ReadAfterMantissa(neg, hex, used + 1 + run, digits \o frac,
                               Len(frac), Drop(Tail(s), run + 1))
    ELSE ReadAfterMantissa(neg, hex, used, digits, 0, s)

\* After the sign: the base prefix and the integer digits.
ReadMantissa(neg, used, s) ==
    LET hex  == Len(s) > 2 /\ s[1] = "0" /\ ToLower(s[2]) = "x"
        body == IF hex THEN Drop(s, 3) ELSE s
        pre  == IF hex THEN 2 ELSE 0
        run  == MantissaRun(body, hex)
    IN  ReadFraction(neg, hex, used + pre + run,
                     NoUnderscores(SubSeq(body, 1, run)), Drop(body, run + 1))

\* readFloat's last test: underscores in the characters read must be where
\* underscoreOK allows them.
ReadFloat(s) ==
    Only({IF NoUnderscores(SubSeq(s, 1, r.n)) # SubSeq(s, 1, r.n)
             /\ ~UnderscoreOK(SubSeq(s, 1, r.n))
          THEN NoFloat ELSE r :
              r \in {IF s # <<>> /\ Head(s) \in {"+", "-"}
                     THEN ReadMantissa(Head(s) = "-", 1, Tail(s))
                     ELSE ReadMantissa(FALSE, 0, s)}})

\* d, 2d, 4d and so on: n numbers.
RECURSIVE Doublings(_, _)
Doublings(d, n) ==
    IF n = 1 THEN <<d>>
    ELSE Only({front \o Doublings(MulSmall(front[Len(front)], 2, 0),
                                  n - n \div 2) :
                   front \in {Doublings(d, n \div 2)}})

\* Binary long division, the bits hi down to lo of the quotient: s is
\* <<the bits of the quotient found so far, what is left to divide>>, and
\* ds[i] is 2^(i - 1) times the divisor.
RECURSIVE Divide(_, _, _, _)
Divide(s, ds, hi, lo) ==
    IF hi = lo
    THEN (IF BigCmp(s[2], ds[hi]) >= 0
          THEN <<MulSmall(s[1], 2, 1), BigSub(s[2], ds[hi])>>
          ELSE <<MulSmall(s[1], 2, 0), s[2]>>)
    ELSE Only({Divide(top, ds, (hi + lo) \div 2, lo) :
                   top \in {Divide(s, ds, hi, (hi + lo) \div 2 + 1)}})

TwoTo52 == Times2(<<1>>, 52)

TwoTo53 == Times2(<<1>>, 53)

\* The float64 m * 2^q: k is "zero" for m = 0 and "over" beyond the largest
\* float64, (2^53 - 1) * 2^971; m = 2^53 is 2^52 with the next exponent.
Float64(m, q) ==
    IF m = <<>> THEN [k |-> "zero", m |-> <<>>, q |-> 0]
    ELSE IF q + (IF m = TwoTo53 THEN 1 ELSE 0) > 971
    THEN [k |-> "over", m |-> <<>>, q |-> 0]
    ELSE IF m = TwoTo53 THEN [k |-> "finite", m |-> TwoTo52, q |-> q + 1]
    ELSE [k |-> "finite", m |-> m, q |-> q]

\* The quotient qr[1] with the remainder qr[2] of a division by d, rounded
\* to the nearest integer, to the even one from halfway.
RoundHalfEven(qr, d) ==
    Only({IF half > 0 \/ (half = 0 /\ qr[1] # <<>> /\ qr[1][1] % 2 = 1)
          THEN MulSmall(qr[1], 1, 1) ELSE qr[1] :
              half \in {BigCmp(MulSmall(qr[2], 2, 0), d)}})

\* The float64 nearest to n / ds[1] * 2^q, for n >= ds[1] * 2^52 unless
\* q = -1074: base more binary places are taken off where n >= ds[1] * 2^53,
\* so that the mantissa has 53 bits.
NearestAt(n, ds, q, base) ==
    Float64(RoundHalfEven(Divide(<<<<>>, n>>, ds, base + 53, base + 1),
                          ds[base + 1]),
            q + base)

\* The float64 nearest to n / d * 2^q, as above.
NearestFrom(n, ds, q) ==
    Only({NearestAt(n, ds, q, IF t > 53 THEN t - 53 ELSE 0) :
              t \in {Cardinality({i \in 1..66 : BigCmp(n, ds[i]) >= 0})}})

\* A binary exponent that is not above the one of a float64 near n0 / d0,
\* from the numbers of decimal digits, and not below the least one, -1074.
LowExponent(n0, d0) ==
    LET est == ((DecLen(n0) - DecLen(d0) - 1) * 33219) \div 10000 - 54
    IN  IF est < -1074 THEN -1074 ELSE est

\* The float64 nearest to n0 / d0, of two equally near the one with the
\* even mantissa: m * 2^q with m < 2^53 and q >= -1074, m >= 2^52 unless
\* q = -1074.
Nearest(n0, d0) ==
    Only({NearestFrom(IF q < 0 THEN Times2(n0, -q) ELSE n0,
                      Doublings(IF q > 0 THEN Times2(d0, q) ELSE d0, 66), q) :
              q \in {LowExponent(n0, d0)}})

\* s + 1 for a string of digits s, one digit longer than s when s is all 9.
RECURSIVE Incr(_)
Incr(s) ==
    IF s = <<>> THEN <<"1">>
    ELSE IF s[Len(s)] = "9" THEN Incr(SubSeq(s, 1, Len(s) - 1)) \o <<"0">>
    ELSE SubSeq(s, 1, Len(s) - 1) \o NatToDigits(DigitVal(s[Len(s)]) + 1)

\* strconv's roundShortest: the fewest digits nd of xs, cut off (okdown)
\* or rounded up (okup), that stay within the bounds ls and us, the bounds
\* themselves allowed when inclusive; where both do, xs rounded to nd
\* digits, half to even.  xs, ls and us are strings of digits of one
\* length, compared digit by digit from the front; exp is the number of
\* digits of xs left out.
RECURSIVE RoundShortest(_, _, _, _, _)
RoundShortest(xs, ls, us, inclusive, nd) ==
    LET prefix == SubSeq(xs, 1, nd)
        next   == Incr(prefix)
        lower  == SubSeq(ls, 1, nd)
        upper  == SubSeq(us, 1, nd)
        okdown == \/ DigitsLess(lower, prefix)
                  \/ /\ inclusive
                     /\ lower = prefix
                     /\ \A i \in (nd + 1)..Len(ls) : ls[i] = "0"
        okup   == /\ Len(next) = nd
                  /\ \/ DigitsLess(next, upper)
                     \/ /\ next = upper
                        /\ \/ inclusive
                           \/ \E i \in (nd + 1)..Len(us) : us[i] # "0"
        above  == /\ nd < Len(xs)
                  /\ \/ DigitVal(xs[nd + 1]) > 5
                     \/ /\ xs[nd + 1] = "5"
                        /\ \/ \E i \in (nd + 2)..Len(xs) : xs[i] # "0"
                           \/ DigitVal(xs[nd]) % 2 = 1
    IN  IF okdown /\ ~(okup /\ above)
        THEN [digits |-> prefix, exp |-> Len(xs) - nd]
        ELSE IF okup THEN [digits |-> next, exp |-> Len(xs) - nd]
        ELSE RoundShortest(xs, ls, us, inclusive, nd + 1)

\* The float64 m * 2^q (m # 0) as the decimal of the fewest digits that
\* strconv reads back as the same float64: the one FormatFloat(v, 'E', -1,
\* 64) prints.  The bounds are halfway to the neighbouring float64s; the
\* one below is nearer when m = 2^52.  All three are whole multiples of
\* 2^(q - 2), written as integers times 10^(q - 2) when q < 2.
Shortest(neg, m, q) ==
    LET narrow    == m = TwoTo52 /\ q > -1074
        scaled(a) == IF q >= 2 THEN Times2(a, q - 2) ELSE Times5(a, 2 - q)
    IN  Only({Dec(neg, r.digits, r.exp + (IF q < 2 THEN q - 2 ELSE 0)) :
                  r \in {Only({RoundShortest(Zeros(Len(us) - Len(xd)) \o xd,
                                             Zeros(Len(us) - Len(ld)) \o ld,
                                             us, m[1] % 2 = 0, 1) :
                                   us \in {BigToDigits(scaled(MulSmall(m, 4, 2)))},
                                   xd \in {BigToDigits(scaled(MulSmall(m, 4, 0)))},
                                   ld \in {BigToDigits(scaled(
                                               BigSub(MulSmall(m, 4, 0),
                                                      <<IF narrow THEN 1 ELSE 2>>)))}})}})

\* strconv.ParseFloat(s, 64) on a number read: the nearest float64.  A
\* number that rounds beyond the largest float64 comes with the error
\* ErrRange, one that rounds to zero is zero without an error.  The first
\* two tests are strconv's, on the position of the point alone; they keep
\* the arithmetic small.
InRange(r) ==
    LET lead     == TrimLeadingZeros(r.digits)
        sig      == IF r.hex THEN lead ELSE TrimTrailingZeros(lead)
        e        == r.exp + Len(lead) - Len(sig)
        big      == IF r.hex THEN 4 * Len(lead) - 4 + e >= 1024
                    ELSE Len(sig) + e > 310
        tiny     == IF r.hex THEN 4 * Len(lead) + e <= -1075
                    ELSE Len(sig) + e < -330
        mantissa == IF r.hex THEN HexToBig(lead) ELSE BigOfDigits(sig)
    IN  IF sig = <<>> \/ tiny THEN [ok |-> TRUE, val |-> Dec(r.neg, <<"0">>, 0)]
        ELSE IF big THEN NotParsed
        ELSE Only({IF f.k = "over" THEN NotParsed
                   ELSE IF f.k = "zero"
                   THEN [ok |-> TRUE, val |-> Dec(r.neg, <<"0">>, 0)]
                   ELSE [ok |-> TRUE, val |-> Shortest(r.neg, f.m, f.q)] :
                       f \in {Nearest(IF e <= 0 THEN mantissa
                                      ELSE IF r.hex THEN Times2(mantissa, e)
                                      ELSE Times10(mantissa, e),
                                      IF e >= 0 THEN <<1>>
                                      ELSE IF r.hex THEN Times2(<<1>>, -e)
                                      ELSE Times10(<<1>>, -e))}})

\* strconv.ParseFloat(s, 64): the whole string must be consumed.
ParseFloat(s) ==
    Only({IF sp.n > 0
          THEN (IF sp.n = Len(s) THEN [ok |-> TRUE, val |-> sp.val] ELSE NotParsed)
          ELSE IF rf.n > 0 /\ rf.n = Len(s) THEN InRange(rf.val)
          ELSE NotParsed :
              sp \in {Special(s)}, rf \in {ReadFloat(s)}})

\* strconv.FormatFloat(v, 'E', -1, 64): shortest digits d.dddE+XX.
FormatFloat(v) ==
    IF v.k = "nan" THEN <<"N", "a", "N">>
    ELSE IF v.k = "inf"
    THEN (IF v.neg THEN <<"-">> ELSE <<"+">>) \o <<"I", "n", "f">>
    ELSE
    LET ds   == v.mant
        e    == IF v.mant = <<"0">> THEN 0 ELSE v.exp + Len(ds) - 1
        eabs == IF e < 0 THEN -e ELSE e
        eds  == IF eabs < 10 THEN <<"0">> \o NatToDigits(eabs) ELSE NatToDigits(eabs)
    IN  (IF v.neg THEN <<"-">> ELSE <<>>)
        \o <<Head(ds)>>
        \o (IF Len(ds) > 1 THEN <<".">> \o Tail(ds) ELSE <<>>)
        \o <<"E">> \o (IF e < 0 THEN <<"-">> ELSE <<"+">>) \o eds

\* ------------------------------------------------------------------------
\* The loaded networks.  Requests are served from a registry that was built
\* once at start-up; the engine objects below are what it holds.
\* ------------------------------------------------------------------------

\* Names used by the networks and by the requests.
NameA   == <<"a">>
NameB   == <<"b">>
NameC   == <<"c">>
NameLo  == <<"l", "o">>
NameHi  == <<"h", "i">>
Name42  == <<"4", "2">>
NameInf == <<"I", "n", "f">>
NameN1  == <<"n", "1">>
NameN2  == <<"n", "2">>
Empty   == <<>>
NameZz  == <<"z", "z">>
NameH1  == <<"#", "1">>
NameH7  == <<"#", "7">>
NameHlo == <<"#", "l", "o">>
Name1e400 == <<"1", "e", "4", "0", "0">>
NameHexQuarter == <<"0", "x", "1", "p", "-", "2">>

\* The evidence strings the requests and the callers give.
EvidenceStrings ==
    {Name42, NameH1, NameH7, NameHlo, NameLo, NameHi, NameZz, NameInf,
     Name1e400, NameHexQuarter}

\* strconv.ParseFloat of each of them, computed once.
Parsed == [s \in EvidenceStrings |-> ParseFloat(s)]

\* strconv.ParseFloat(s, 64) as Node.EnterFinding calls it.
ParsedFloat(s) == IF s \in EvidenceStrings THEN Parsed[s] ELSE ParseFloat(s)

\* The engine's networks, in the order indexNets appended them to netList.
NetList == <<"n1", "n2">>

Nets == {NetList[i] : i \in 1..Len(NetList)}

\* C.GetNetName_bn
NetName(n) == IF n = "n1" THEN NameN1 ELSE NameN2

\* The nodes of a network, mapped by name (Network.NodeMap).
NodeNames(n) == IF n = "n1" THEN {NameA, NameB} ELSE {NameA, NameC}

\* A node of the engine: its ordered state names (GetNodeNumberStates_bn,
\* GetNodeStateName_bn) and whether it takes real-valued findings (a
\* continuous node, or a discrete one with levels).  n1.a and n2.a are plain
\* discrete nodes, n1.b is a discretised node with an unnamed state and
\* states whose names read as numbers, n2.c has no states at all.
NodeDef(n, name) ==
    CASE name = NameA -> [states |-> <<NameLo, NameHi>>, real |-> FALSE]
      [] name = NameB -> [states |-> <<Empty, Name42, NameInf>>, real |-> TRUE]
      [] OTHER        -> [states |-> <<>>, real |-> TRUE]

\* Requests (goroutines of the HTTP server), or the single caller of the
\* library in the specifications of the library's own operations.
Procs == {"r1", "r2"}

\* ------------------------------------------------------------------------
\* Findings.  by is the case that entered the finding: <<request, index>>.
\* It is not engine state; it records provenance for the isolation properties.
\* ------------------------------------------------------------------------

NoCase == <<"none", 0>>

Zero == Num(FALSE, 0, 0)

NoFinding == [k |-> "none", s |-> 0, v |-> Zero, by |-> NoCase]

StateFinding(s, by) == [k |-> "state", s |-> s, v |-> Zero, by |-> by]

ValueFinding(v, by) == [k |-> "value", s |-> 0, v |-> v, by |-> by]

\* ------------------------------------------------------------------------
\* Errors.  An engine error carries the requests whose engine calls raised
\* the drained reports (Environment.Errors joins all drained messages).
\* ------------------------------------------------------------------------

NoErr == [k |-> "none", from |-> <<>>]

EngineErr(reports) == [k |-> "engine", from |-> reports]

\* fmt.Errorf("... state %s not defined for node %s")
UndefStateErr == [k |-> "undefstate", from |-> <<>>]

\* fmt.Errorf("In function Node.Value: undefined expected value")
UndefValueErr == [k |-> "undefvalue", from |-> <<>>]

\* Environment.Errors, its result: the messages of the reports it read,
\* joined; nil when it read none.
Errors(q) == IF q = <<>> THEN NoErr ELSE EngineErr(q)

\* ------------------------------------------------------------------------
\* The engine (Netica C API), as far as the wrappers observe it.  Each
\* operator gives the set of outcomes of one call: the new finding of the
\* node and whether the engine queued an error report.
\* ------------------------------------------------------------------------

\* C.EnterFinding_bn(node, state): a state outside the node's states is an
\* error and enters nothing; otherwise the finding is entered, or the engine
\* reports an error of its own and the finding may or may not have been
\* entered.
EnterFinding_bn(def, f, s, by) ==
    IF s < 0 \/ s >= Len(def.states)
    THEN {[f |-> f, err |-> TRUE]}
    ELSE {[f |-> StateFinding(s, by), err |-> FALSE],
          [f |-> StateFinding(s, by), err |-> TRUE],
          [f |-> f, err |-> TRUE]}

\* C.EnterNodeValue_bn(node, value): an error for a node that takes no real
\* value; otherwise as EnterFinding_bn.
EnterNodeValue_bn(def, f, v, by) ==
    IF ~def.real
    THEN {[f |-> f, err |-> TRUE]}
    ELSE {[f |-> ValueFinding(v, by), err |-> FALSE],
          [f |-> ValueFinding(v, by), err |-> TRUE],
          [f |-> f, err |-> TRUE]}

\* Variant: a retraction that leaves the node's finding where it is.
KeepFinding(f) == f

\* C.RetractNodeFindings_bn(node)
RetractNodeFindings_bn(f) == NoFinding

\* Variant: a retraction that leaves the findings where they are.
KeepFindings(fs) == fs

\* C.RetractNetFindings_bn(net): every node of the network loses its finding.
RetractNetFindings_bn(fs) == [name \in DOMAIN fs |-> NoFinding]

\* C.GetStateNamed_bn(name, node): the index of the state, UNDEF_STATE (-3)
\* when the node has no state of that name (a state without a name is not
\* found by name).
UNDEF_STATE == -3

GetStateNamed_bn(def, name) ==
    IF name # <<>> /\ \E i \in 1..Len(def.states) : def.states[i] = name
    THEN (CHOOSE i \in 1..Len(def.states) :
             /\ def.states[i] = name
             /\ \A j \in 1..(i - 1) : def.states[j] # name) - 1
    ELSE UNDEF_STATE

\* C.GetNodeExpectedValue_bn: an error report, the undefined value
\* (GetUndefDbl_ns), or a real number (only for a node with real values).
ExpectedValues == {Num(TRUE, 425, -1)}

UndefDbl == [k |-> "undef", neg |-> FALSE, mant |-> <<"0">>, exp |-> 0]

GetNodeExpectedValue_bn(def) ==
    {[v |-> UndefDbl, err |-> TRUE], [v |-> UndefDbl, err |-> FALSE]}
    \cup (IF def.real THEN {[v |-> x, err |-> FALSE] : x \in ExpectedValues}
          ELSE {})

\* C.GetNodeBeliefs_bn with C.NthProb_bn: an error report, or one belief per
\* state (beliefs are counted in tenths).
BeliefLevels == {2, 5}

GetNodeBeliefs_bn(def) ==
    {[b |-> <<>>, err |-> TRUE]}
    \cup {[b |-> x, err |-> FALSE] : x \in [1..Len(def.states) -> BeliefLevels]}

\* Variant: the scan keeps the last index among equal beliefs.
RECURSIVE MaxScanLast(_, _, _, _)
MaxScanLast(beliefs, i, maxIndex, maxBelief) ==
    IF i > Len(beliefs) THEN maxIndex
    ELSE IF beliefs[i] >= maxBelief
    THEN MaxScanLast(beliefs, i + 1, i - 1, beliefs[i])
    ELSE MaxScanLast(beliefs, i + 1, maxIndex, maxBelief)

\* Node.State's scan over the belief list: the first index (0-based) whose
\* belief is greater than every belief before it and not smaller than any.
RECURSIVE MaxScan(_, _, _, _)
MaxScan(beliefs, i, maxIndex, maxBelief) ==
    IF i > Len(beliefs) THEN maxIndex
    ELSE IF beliefs[i] > maxBelief
    THEN MaxScan(beliefs, i + 1, i - 1, beliefs[i])
    ELSE MaxScan(beliefs, i + 1, maxIndex, maxBelief)

MaxIndex(beliefs) == MaxScan(beliefs, 1, 0, beliefs[1])

\* ------------------------------------------------------------------------
\* Identifiers of a request: sort.Strings order, the registry's keys and
\* the resolution of the target node.
\* ------------------------------------------------------------------------

\* The characters of the model in byte order.
CharsInOrder ==
    <<"#", "+", "-", ".", "0", "1", "2", "3", "4", "5", "6", "7", "8", "9",
      "I", "N", "a", "b", "c", "f", "h", "i", "l", "n", "o", "x", "z">>

CharOrd(c) == CHOOSE i \in 1..Len(CharsInOrder) : CharsInOrder[i] = c

\* s < t in the order of sort.Strings.
RECURSIVE StrLess(_, _)
StrLess(s, t) ==
    IF t = <<>> THEN FALSE
    ELSE IF s = <<>> THEN TRUE
    ELSE IF Head(s) = Head(t) THEN StrLess(Tail(s), Tail(t))
    ELSE CharOrd(Head(s)) < CharOrd(Head(t))

RECURSIVE SortStrings(_)
SortStrings(S) ==
    IF S = {} THEN <<>>
    ELSE LET m == CHOOSE x \in S : \A y \in S \ {x} : StrLess(x, y)
         IN  <<m>> \o SortStrings(S \ {m})

\* Network.NodeList: the node names sorted ascending; buildJSON numbers the
\* nodes of a network in this order.
NodeList(n) == SortStrings(NodeNames(n))

\* postNetNode's resolution of nodeid in a network with the node names
\* names, described as the list described: by name first
\* (Network.NodeNamed), then as an index into the network's description;
\* indexing outside the description is a run-time panic.
PostNode(names, described, nodeID) ==
    IF nodeID \in names THEN [status |-> "ok", node |-> nodeID]
    ELSE LET a == Atoi(nodeID)
         IN  IF ~a.ok THEN [status |-> "notfound", node |-> Empty]
             ELSE IF a.wide \/ a.val < 0 \/ a.val >= Len(described)
             THEN [status |-> "panic", node |-> Empty]
             ELSE IF described[a.val + 1] \in names
             THEN [status |-> "ok", node |-> described[a.val + 1]]
             ELSE [status |-> "notfound", node |-> Empty]


\* Variant: an evidence string is never read as a real value.
OrdinalOrName(evidence) ==
    IF HasHashPrefix(evidence) /\ Atoi(Tail(evidence)).ok
    THEN [form |-> "ordinal", val |-> Zero, st |-> Atoi(Tail(evidence)).val]
    ELSE [form |-> "name", val |-> Zero, st |-> 0]

\* Node.EnterFinding's choice of the form of an evidence string: a real
\* value when strconv.ParseFloat accepts it, else a state index when it is
\* "#" and an integer, else a state name.
ParseEvidence(evidence) ==
    Only({IF f.ok THEN [form |-> "value", val |-> f.val, st |-> 0]
          ELSE IF a.ok THEN [form |-> "ordinal", val |-> Zero, st |-> a.val]
          ELSE [form |-> "name", val |-> Zero, st |-> 0] :
              f \in {ParsedFloat(evidence)},
              a \in {IF HasHashPrefix(evidence) THEN Atoi(Tail(evidence))
                     ELSE [ok |-> FALSE, val |-> 0, wide |-> FALSE]}})

\* ------------------------------------------------------------------------
\* State
\* ------------------------------------------------------------------------

VARIABLES
    findings,   \* engine: findings[n][name], the finding of each node
    lock,       \* Environment.netlocks: the holder of each network's lock
    errq,       \* engine: the environment's queue of error reports
    messages,   \* Environment.Errors: messages, the reports read so far
    raised,     \* engine: error reports raised so far
    readers,    \* Environment.netlocks: the readers inside each network's lock
    pc,         \* where each request is
    stack,      \* return addresses of the calls in progress
    net,        \* postNetNode: the network of the request
    target,     \* postNetNode: the target node
    cases,      \* postNetNode: infer.Cases
    idx,        \* postNetNode: index of the case in progress
    results,    \* postNetNode: batch.Results
    cm,         \* EnterCase: caseMap
    todo,       \* EnterCase: nodes of nodeMap not visited yet
    cur,        \* the node an operation of Node works on
    ev,         \* EnterFinding, StateNamed: the evidence string
    st,         \* SetState: state; State, Infer: index
    val,        \* SetValue: value
    err,        \* the error returned by the last call that returned
    ret,        \* the string returned by Infer
    sav,        \* the caller's err variable, kept across a nested call
    cval,       \* Value: cValue, before the error check
    cbel,       \* BeliefList: beliefs, before the error check
    calls,      \* library specification: calls made so far
    obs,        \* library specification: the call in progress
    walk,       \* indexNets: the files of the directory in the order of filepath.Walk
    visited,    \* indexNets: how many of them the walk has passed
    nets,       \* indexNets: nets (netList once the server runs)
    lookup,     \* indexNets: lookup (netLookup once the server runs)
    netlocks,   \* Environment.netlocks: the networks that have a lock
    closed,     \* engine: networks deleted by CloseNetwork
    logged,     \* log.Println: files reported during the load
    netJSONList, \* buildJSON: list
    netsJSON,   \* buildJSON: nets
    phase,      \* serveJSON: where the start of the server is
    resp        \* the response to the last request of the running server

shared == <<findings, lock, errq>>

drain == <<messages, raised>>

request == <<net, target, cases, idx, results>>

locals == <<cm, todo, cur, ev, st, val, ret, sav, cval, cbel>>

library == <<calls, obs>>

registry == <<walk, visited, nets, lookup, netlocks, closed, logged,
              netJSONList, netsJSON, phase, resp>>

vars == <<findings, lock, errq, messages, raised, readers, pc, stack, net, target, cases, idx, results,
          cm, todo, cur, ev, st, val, err, ret, sav, cval, cbel, calls, obs,
          walk, visited, nets, lookup, netlocks, closed, logged,
          netJSONList, netsJSON, phase, resp>>

\* ------------------------------------------------------------------------
\* Bounds and inputs
\* ------------------------------------------------------------------------

\* Cases submitted by all requests together.
MaxCases == 2

\* Calls the caller of the library makes.
MaxCalls == 2

\* Error reports the engine raises of its own in one run.
MaxReports == 1

\* Case maps of the requests: no evidence; an undefined state; two
\* findings, the second on a node only n1 has.
CaseMaps ==
    { <<>>,
      (NameA :> NameZz),
      (NameA :> NameHi) @@ (NameB :> Name42) }

Batches(most) == UNION {[1..k -> CaseMaps] : k \in 0..most}

RECURSIVE Submitted(_, _)
Submitted(cs, P) ==
    IF P = {} THEN 0
    ELSE LET q == CHOOSE q \in P : TRUE
         IN  Len(cs[q]) + Submitted(cs, P \ {q})

\* r.PathParam("netid"), r.PathParam("nodeid")
NetIDs == {NameN1, NameN2, <<"0">>, <<"1">>, <<"2">>, <<"x">>}

NodeIDs == {NameA, NameB, NameC, <<"0">>, <<"1">>, <<"2">>, <<"-", "1">>, <<"x">>}

\* netLookup / netsJSON: every registered network under its name and under
\* the decimal string of its index in netList; "none" for an unknown key.
LookedUp ==
    [netID \in NetIDs |->
        IF \E i \in 1..Len(NetList) :
               NetName(NetList[i]) = netID \/ Itoa(i - 1) = netID
        THEN NetList[CHOOSE i \in 1..Len(NetList) :
                        NetName(NetList[i]) = netID \/ Itoa(i - 1) = netID]
        ELSE "none"]

NetLookup(netID) == LookedUp[netID]

\* postNetNode's resolution of every nodeid in every network.
Resolved ==
    [n \in Nets |-> [id \in NodeIDs |-> PostNode(NodeNames(n), NodeList(n), id)]]

ResolveNode(n, nodeID) == Resolved[n][nodeID]

\* The call the caller made before the one in progress: the operation, its
\* network, node and evidence, the findings of the network before it and
\* the string and the error it returned.
NoCall == [op |-> "none", net |-> "none", node |-> Empty, ev |-> Empty,
           pre |-> <<>>, ret |-> Empty, err |-> NoErr]

NoObs == [op |-> "none", ev |-> Empty, pre |-> <<>>, last |-> NoCall]

\* The registry of a server that has loaded the networks of NetList, in
\* this order, and has described all their nodes.
RegistryKeys == {NetName(n) : n \in Nets} \cup {Itoa(i - 1) : i \in 1..Len(NetList)}

RegistryLoaded ==
    /\ walk = <<>>
    /\ visited = 0
    /\ nets = NetList
    /\ lookup = [k \in RegistryKeys |-> NetLookup(k)]
    /\ netlocks = Nets
    /\ closed = {}
    /\ logged = <<>>
    /\ netJSONList = [i \in 1..Len(NetList) |->
                         [index |-> i - 1, name |-> NetName(NetList[i]), nodes |-> <<>>]]
    /\ netsJSON = [k \in RegistryKeys |->
                     [index |-> CHOOSE i \in 0..(Len(NetList) - 1) :
                                    NetList[i + 1] = NetLookup(k),
                      name |-> NetName(NetLookup(k)),
                      nodes |-> NodeList(NetLookup(k))]]
    /\ phase = "serving"
    /\ resp = [handler |-> "none"]

InitCommon ==
    /\ findings = [n \in Nets |-> [name \in NodeNames(n) |-> NoFinding]]
    /\ lock = [n \in Nets |-> "none"]
    /\ errq = <<>>
    /\ messages = [p \in Procs |-> <<>>]
    /\ raised = 0
    /\ readers = [n \in Nets |-> 0]
    /\ stack = [p \in Procs |-> <<>>]
    /\ net = [p \in Procs |-> "none"]
    /\ target = [p \in Procs |-> Empty]
    /\ cases = [p \in Procs |-> <<>>]
    /\ idx = [p \in Procs |-> 0]
    /\ results = [p \in Procs |-> <<>>]
    /\ cm = [p \in Procs |-> <<>>]
    /\ todo = [p \in Procs |-> {}]
    /\ cur = [p \in Procs |-> Empty]
    /\ ev = [p \in Procs |-> Empty]
    /\ st = [p \in Procs |-> 0]
    /\ val = [p \in Procs |-> Zero]
    /\ err = [p \in Procs |-> NoErr]
    /\ ret = [p \in Procs |-> Empty]
    /\ sav = [p \in Procs |-> NoErr]
    /\ cval = [p \in Procs |-> UndefDbl]
    /\ cbel = [p \in Procs |-> <<>>]
    /\ calls = 0
    /\ obs = NoObs
    /\ RegistryLoaded

\* The server: every request is about to arrive.
Init == InitCommon /\ pc = [p \in Procs |-> "idle"]

\* ------------------------------------------------------------------------
\* Control
\* ------------------------------------------------------------------------

Goto(p, label) == pc' = [pc EXCEPT ![p] = label] /\ UNCHANGED stack

Call(p, label, back) ==
    /\ pc' = [pc EXCEPT ![p] = label]
    /\ stack' = [stack EXCEPT ![p] = <<back>> \o stack[p]]

\* return e
Return(p, e) ==
    /\ err' = [err EXCEPT ![p] = e]
    /\ pc' = [pc EXCEPT ![p] = Head(stack[p])]
    /\ stack' = [stack EXCEPT ![p] = Tail(stack[p])]

\* The node an operation works on, and the case it works for.
Def(p) == NodeDef(net[p], cur[p])

Finding(p) == findings[net[p]][cur[p]]

ThisCase(p) == <<p, idx[p]>>

SetFinding(p, f) ==
    findings' = [findings EXCEPT ![net[p]][cur[p]] = f]

\* An engine call's error report, queued in the environment.
Report(p, failed) ==
    /\ errq' = IF failed THEN Append(errq, p) ELSE errq
    /\ raised' = IF failed /\ raised < MaxReports THEN raised + 1 ELSE raised

\* The outcomes of an engine call: once MaxReports reports were raised the
\* engine raises a report only where the call has no other outcome.
Within(outcomes) ==
    IF raised < MaxReports \/ \A o \in outcomes : o.err THEN outcomes
    ELSE {o \in outcomes : ~o.err}

\* The places where a request is inside Environment.Errors.
DrainLabels == {"sn_check", "ss_check", "sv_check", "cf", "va_check", "be_check", "nm_check", "ec_nodemap", "cc"}

\* C.GetError_ns returns nil: the loop of Environment.Errors is through.
Drained(p) == errq = <<>>

\* The request is in the loop of Environment.Errors and a report is queued.
Draining(p) == pc[p] \in DrainLabels /\ errq # <<>>

\* Environment.Errors, one turn of its loop: C.GetError_ns returns the first
\* report of the queue, its message is appended to messages and
\* C.ClearError_ns takes it off the queue.  The queue is the environment's
\* and no lock is taken: a request on another network takes reports in
\* between.
GetError_ns(p) ==
    /\ Draining(p)
    /\ messages' = [messages EXCEPT ![p] = Append(messages[p], Head(errq))]
    /\ errq' = Tail(errq)
    /\ UNCHANGED <<registry, findings, lock, raised, readers, request, locals, library,
                   pc, stack, err>>

\* Two requests are in the loop at once and C.GetError_ns gives both the
\* same report before either clears it: the second C.ErrorMessage_ns and
\* C.ClearError_ns work on a report that is gone.  Here both read the
\* message and the second clearing changes nothing.
GetErrorTwice(p) ==
    /\ Draining(p)
    /\ \E q \in Procs \ {p} :
           /\ Draining(q)
           /\ messages' = [messages EXCEPT ![p] = Append(messages[p], Head(errq)),
                                           ![q] = Append(messages[q], Head(errq))]
    /\ errq' = Tail(errq)
    /\ UNCHANGED <<registry, findings, lock, raised, readers, request, locals, library,
                   pc, stack, err>>

\* The same, when the use of the cleared report faults in the engine: the
\* process ends, and with it every request and the engine's state.
ClearedReportFaults(p) ==
    /\ Draining(p)
    /\ \E q \in Procs \ {p} : Draining(q)
    /\ pc' = [q \in Procs |-> "crashed"]
    /\ findings' = [n \in Nets |-> [name \in NodeNames(n) |-> NoFinding]]
    /\ lock' = [n \in Nets |-> "none"]
    /\ errq' = <<>>
    /\ messages' = [q \in Procs |-> <<>>]
    /\ raised' = 0
    /\ stack' = [q \in Procs |-> <<>>]
    /\ net' = [q \in Procs |-> "none"]
    /\ target' = [q \in Procs |-> Empty]
    /\ cases' = [q \in Procs |-> <<>>]
    /\ idx' = [q \in Procs |-> 0]
    /\ results' = [q \in Procs |-> <<>>]
    /\ cm' = [q \in Procs |-> <<>>]
    /\ todo' = [q \in Procs |-> {}]
    /\ cur' = [q \in Procs |-> Empty]
    /\ ev' = [q \in Procs |-> Empty]
    /\ st' = [q \in Procs |-> 0]
    /\ val' = [q \in Procs |-> Zero]
    /\ err' = [q \in Procs |-> NoErr]
    /\ ret' = [q \in Procs |-> Empty]
    /\ sav' = [q \in Procs |-> NoErr]
    /\ cval' = [q \in Procs |-> UndefDbl]
    /\ cbel' = [q \in Procs |-> <<>>]
    /\ UNCHANGED <<registry, readers, library>>

\* Variant: a lock that never blocks.
AlwaysFree(l, n) == TRUE

\* sync.RWMutex.Lock blocks until no one holds the lock, neither a writer
\* nor a reader.
CanLock(l, n) == l[n] = "none" /\ readers[n] = 0

\* sync.RWMutex.RLock blocks while a writer holds the lock.
CanRLock(l, n) == l[n] = "none"

\* Variant: an Unlock that leaves the lock with its holder.
KeepLocked(l, n) == l

\* sync.RWMutex.Unlock
Unlocked(l, n) == [l EXCEPT ![n] = "none"]

\* The variables of the calls of one case go out of scope.
Forget(p) ==
    /\ cm' = [cm EXCEPT ![p] = <<>>]
    /\ todo' = [todo EXCEPT ![p] = {}]
    /\ cur' = [cur EXCEPT ![p] = Empty]
    /\ ev' = [ev EXCEPT ![p] = Empty]
    /\ st' = [st EXCEPT ![p] = 0]
    /\ val' = [val EXCEPT ![p] = Zero]
    /\ err' = [err EXCEPT ![p] = NoErr]
    /\ ret' = [ret EXCEPT ![p] = Empty]
    /\ sav' = [sav EXCEPT ![p] = NoErr]
    /\ cval' = [cval EXCEPT ![p] = UndefDbl]
    /\ cbel' = [cbel EXCEPT ![p] = <<>>]

\* ------------------------------------------------------------------------
\* Node (node.go).  An engine call and the drain of the error queue that
\* follows it are separate steps: other requests run in between.
\* ------------------------------------------------------------------------

\* Node.EnterFinding: parse the evidence and go on as SetValue, SetState or
\* StateNamed.
EnterFindingStart(p) ==
    /\ pc[p] = "ef_start"
    /\ \E e \in {ParseEvidence(ev[p])} :
           /\ val' = [val EXCEPT ![p] = e.val]
           /\ st' = [st EXCEPT ![p] = e.st]
           /\ Goto(p, CASE e.form = "value"   -> "sv_call"
                        [] e.form = "ordinal" -> "ss_call"
                        [] OTHER              -> "sn_check")
    /\ UNCHANGED <<registry, drain, readers, shared, request, library, err,
                   cm, todo, cur, ev, ret, sav, cval, cbel>>

\* Node.StateNamed, and EnterFinding's use of its result: an error of the
\* engine or an undefined state is returned as it is.
StateNamedCheck(p) ==
    /\ pc[p] = "sn_check"
    /\ Drained(p)
    /\ messages' = [messages EXCEPT ![p] = <<>>]
    /\ LET i == GetStateNamed_bn(Def(p), ev[p])
           e == Errors(messages[p])
       IN  IF e # NoErr THEN Return(p, e) /\ UNCHANGED st
           ELSE IF i = UNDEF_STATE THEN Return(p, UndefStateErr) /\ UNCHANGED st
           ELSE /\ st' = [st EXCEPT ![p] = i]
                /\ Goto(p, "ss_call")
                /\ UNCHANGED err
    /\ UNCHANGED <<registry, errq, raised, readers, findings, lock, request, library,
                   cm, todo, cur, ev, val, ret, sav, cval, cbel>>

\* Node.SetState: C.EnterFinding_bn
SetStateCall(p) ==
    /\ pc[p] = "ss_call"
    /\ \E o \in Within(EnterFinding_bn(Def(p), Finding(p), st[p], ThisCase(p))) :
           SetFinding(p, o.f) /\ Report(p, o.err)
    /\ Goto(p, "ss_check")
    /\ UNCHANGED <<registry, messages, readers, lock, request, locals, library, err>>

\* Node.SetValue: C.EnterNodeValue_bn
SetValueCall(p) ==
    /\ pc[p] = "sv_call"
    /\ \E o \in Within(EnterNodeValue_bn(Def(p), Finding(p), val[p], ThisCase(p))) :
           SetFinding(p, o.f) /\ Report(p, o.err)
    /\ Goto(p, "sv_check")
    /\ UNCHANGED <<registry, messages, readers, lock, request, locals, library, err>>

\* What SetState and SetValue do with the drained errors: on an error the
\* node's findings are cleared before the error is returned.
ClearsOnError(e) == e # NoErr

\* Node.SetState and Node.SetValue: check for errors, clear node findings
\* on error.
SetCheck(p) ==
    /\ pc[p] \in {"ss_check", "sv_check"}
    /\ Drained(p)
    /\ messages' = [messages EXCEPT ![p] = <<>>]
    /\ LET e == Errors(messages[p])
       IN  IF ClearsOnError(e)
           THEN /\ sav' = [sav EXCEPT ![p] = e]
                /\ Call(p, "cf", "set_ret")
                /\ UNCHANGED err
           ELSE Return(p, e) /\ UNCHANGED sav
    /\ UNCHANGED <<registry, errq, raised, readers, findings, lock, request, library,
                   cm, todo, cur, ev, st, val, ret, cval, cbel>>

\* Node.SetState and Node.SetValue: return err, after ClearFindings.
SetReturn(p) ==
    /\ pc[p] = "set_ret"
    /\ Return(p, sav[p])
    /\ UNCHANGED <<registry, drain, readers, shared, request, locals, library>>

\* Node.ClearFindings: C.RetractNodeFindings_bn and the drain.
ClearFindings(p) ==
    /\ pc[p] = "cf"
    /\ SetFinding(p, RetractNodeFindings_bn(Finding(p)))
    /\ Drained(p)
    /\ messages' = [messages EXCEPT ![p] = <<>>]
    /\ Return(p, Errors(messages[p]))
    /\ UNCHANGED <<registry, errq, raised, readers, lock, request, locals, library>>

\* Node.Value: C.GetNodeExpectedValue_bn
ValueCall(p) ==
    /\ pc[p] = "va_call"
    /\ \E o \in Within(GetNodeExpectedValue_bn(Def(p))) :
           /\ cval' = [cval EXCEPT ![p] = o.v]
           /\ Report(p, o.err)
    /\ Goto(p, "va_check")
    /\ UNCHANGED <<registry, messages, readers, findings, lock, request, library, err,
                   cm, todo, cur, ev, st, val, ret, sav, cbel>>

\* The error Node.Value returns: the drained errors, or the undefined
\* expected value.
ValueErr(e, cValue) ==
    IF e # NoErr THEN e
    ELSE IF cValue = UndefDbl THEN UndefValueErr
    ELSE NoErr

\* Variant: Infer returns the error of Value as it is.
NeverTriesState(valueErr) == FALSE

\* Node.Infer goes on to the discrete state estimate when Value returned
\* an error.
TriesState(valueErr) == valueErr # NoErr

\* Node.Value's check, and Node.Infer's use of its result.  sav is Infer's
\* err variable.
ValueCheck(p) ==
    /\ pc[p] = "va_check"
    /\ Drained(p)
    /\ messages' = [messages EXCEPT ![p] = <<>>]
    /\ LET e == ValueErr(Errors(messages[p]), cval[p])
       IN  /\ sav' = [sav EXCEPT ![p] = e]
           /\ IF TriesState(e)
              THEN Goto(p, "be_call") /\ UNCHANGED <<err, ret>>
              ELSE /\ ret' = [ret EXCEPT ![p] =
                                 IF e = NoErr THEN FormatFloat(cval[p]) ELSE Empty]
                   /\ Return(p, e)
    /\ UNCHANGED <<registry, errq, raised, readers, findings, lock, request, library,
                   cm, todo, cur, ev, st, val, cval, cbel>>

\* Node.BeliefList: C.GetNodeBeliefs_bn
BeliefCall(p) ==
    /\ pc[p] = "be_call"
    /\ \E o \in Within(GetNodeBeliefs_bn(Def(p))) :
           /\ cbel' = [cbel EXCEPT ![p] = o.b]
           /\ Report(p, o.err)
    /\ Goto(p, "be_check")
    /\ UNCHANGED <<registry, messages, readers, findings, lock, request, library, err,
                   cm, todo, cur, ev, st, val, ret, sav, cval>>

\* Node.BeliefList's check and Node.State: beliefList[0] of an empty list
\* is a run-time panic.
BeliefCheck(p) ==
    /\ pc[p] = "be_check"
    /\ Drained(p)
    /\ messages' = [messages EXCEPT ![p] = <<>>]
    /\ LET e == Errors(messages[p])
       IN  IF e # NoErr
           THEN /\ ret' = [ret EXCEPT ![p] = Empty]
                /\ Return(p, e)
                /\ UNCHANGED st
           ELSE IF cbel[p] = <<>>
           THEN Goto(p, "panic") /\ UNCHANGED <<st, ret, err>>
           ELSE /\ st' = [st EXCEPT ![p] = MaxIndex(cbel[p])]
                /\ Goto(p, "nm_check")
                /\ UNCHANGED <<ret, err>>
    /\ UNCHANGED <<registry, errq, raised, readers, findings, lock, request, library,
                   cm, todo, cur, ev, val, sav, cval, cbel>>

\* Variant: Infer returns the name of the state as it is.
NameOnly(def, index) == def.states[index + 1]

\* Node.Infer: the name of the state, or "#" and its index when the state
\* has no name.
StateToken(def, index) ==
    LET name == def.states[index + 1]
    IN  IF name # Empty THEN name ELSE <<"#">> \o Itoa(index)

\* Node.Infer: C.GetNodeStateName_bn, the drain and the result.
NameCheck(p) ==
    /\ pc[p] = "nm_check"
    /\ Drained(p)
    /\ messages' = [messages EXCEPT ![p] = <<>>]
    /\ LET e == Errors(messages[p])
       IN  /\ ret' = [ret EXCEPT ![p] =
                         IF e # NoErr THEN Empty ELSE StateToken(Def(p), st[p])]
           /\ Return(p, e)
    /\ UNCHANGED <<registry, errq, raised, readers, findings, lock, request, library,
                   cm, todo, cur, ev, st, val, sav, cval, cbel>>

\* ------------------------------------------------------------------------
\* Network (network.go)
\* ------------------------------------------------------------------------

\* Network.EnterCase: NodeMap and its error check.
NodeMapCheck(p) ==
    /\ pc[p] = "ec_nodemap"
    /\ Drained(p)
    /\ messages' = [messages EXCEPT ![p] = <<>>]
    /\ LET e == Errors(messages[p])
       IN  IF e # NoErr THEN Return(p, e) /\ UNCHANGED todo
           ELSE /\ todo' = [todo EXCEPT ![p] = NodeNames(net[p])]
                /\ Goto(p, "ec_loop")
                /\ UNCHANGED err
    /\ UNCHANGED <<registry, errq, raised, readers, findings, lock, request, library,
                   cm, cur, ev, st, val, ret, sav, cval, cbel>>

\* Variant: every node of the network is given evidence.
EveryNode(nodes, caseMap) == nodes

\* if evidence, ok := caseMap[name]; ok: the nodes that have a key.
Named(nodes, caseMap) == {name \in nodes : name \in DOMAIN caseMap}

\* caseMap[name]: the empty string for a missing key.
Evidence(caseMap, name) ==
    IF name \in DOMAIN caseMap THEN caseMap[name] ELSE Empty

\* Variant: the range ends after the first node that has a key.
NoneLeft(named, name) == {}

\* for name, node := range nodeMap: the nodes still to come after name.
Rest(named, name) == named \ {name}

\* Network.EnterCase: the range over nodeMap, in the order the map yields
\* (any order).  Nodes without a key in caseMap are passed over.
CaseLoop(p) ==
    /\ pc[p] = "ec_loop"
    /\ LET named == Named(todo[p], cm[p])
       IN  IF named = {}
           THEN /\ todo' = [todo EXCEPT ![p] = {}]
                /\ Return(p, NoErr)
                /\ UNCHANGED <<cur, ev>>
           ELSE \E name \in named :
                    /\ todo' = [todo EXCEPT ![p] = Rest(named, name)]
                    /\ cur' = [cur EXCEPT ![p] = name]
                    /\ ev' = [ev EXCEPT ![p] = Evidence(cm[p], name)]
                    /\ Call(p, "ef_start", "ec_entered")
                    /\ UNCHANGED err
    /\ UNCHANGED <<registry, drain, readers, shared, request, library, cm, st, val, ret, sav, cval, cbel>>

\* Variant: EnterCase returns the error without retracting.
NeverRetracts(e) == FALSE

\* What EnterCase does with the error of EnterFinding: retract all findings
\* on error.
RetractsOnError(e) == e # NoErr

\* Network.EnterCase: after node.EnterFinding.
CaseEntered(p) ==
    /\ pc[p] = "ec_entered"
    /\ IF err[p] # NoErr
       THEN /\ sav' = [sav EXCEPT ![p] = err[p]]
            /\ IF RetractsOnError(err[p])
               THEN Call(p, "cc", "ec_ret")
               ELSE Goto(p, "ec_ret")
       ELSE Goto(p, "ec_loop") /\ UNCHANGED sav
    /\ cur' = [cur EXCEPT ![p] = Empty]
    /\ ev' = [ev EXCEPT ![p] = Empty]
    /\ st' = [st EXCEPT ![p] = 0]
    /\ val' = [val EXCEPT ![p] = Zero]
    /\ UNCHANGED <<registry, drain, readers, shared, request, library, err, cm, todo, ret, cval, cbel>>

\* Network.EnterCase: return err, after ClearCases.
CaseReturn(p) ==
    /\ pc[p] = "ec_ret"
    /\ Return(p, sav[p])
    /\ UNCHANGED <<registry, drain, readers, shared, request, locals, library>>

\* Network.ClearCases: C.RetractNetFindings_bn and the drain.
ClearCases(p) ==
    /\ pc[p] = "cc"
    /\ findings' = [findings EXCEPT
                       ![net[p]] = RetractNetFindings_bn(findings[net[p]])]
    /\ Drained(p)
    /\ messages' = [messages EXCEPT ![p] = <<>>]
    /\ Return(p, Errors(messages[p]))
    /\ UNCHANGED <<registry, errq, raised, readers, lock, request, locals, library>>

\* ------------------------------------------------------------------------
\* postNetNode (gncli/cmd/serveJSON.go)
\* ------------------------------------------------------------------------

\* Variant: the batch loop stops after its first case.
FirstCaseOnly(p, index) == "done"

\* Variant: the batch loop stops at a case that failed.
StopAtFailure(p, index) ==
    IF index + 1 < Len(cases[p]) /\ err[p] = NoErr /\ sav[p] = NoErr
    THEN "lock" ELSE "done"

\* Where the batch loop goes after case number index (0-based) is done.
NextCase(p, index) ==
    IF index + 1 < Len(cases[p]) THEN "lock" ELSE "done"

\* batch.Results = append(batch.Results, &singleJSON{index, error, value})
Record(p, e, value) ==
    /\ results' = [results EXCEPT ![p] =
                      Append(@, [index |-> idx[p], error |-> e, value |-> value])]
    /\ idx' = [idx EXCEPT ![p] = idx[p] + 1]
    /\ Goto(p, NextCase(p, idx[p]))
    /\ Forget(p)

\* A request arrives: the network and the node are resolved and the payload
\* is decoded.  Unknown identifiers end in a not-found response, a payload
\* that does not decode in an error response, an index outside the node
\* list in a panic (no lock is held).
Request(p) ==
    /\ pc[p] = "idle"
    /\ \E netID \in NetIDs, nodeID \in NodeIDs, ok \in BOOLEAN,
          batch \in Batches(MaxCases - Submitted(cases, Procs)) :
         LET n == NetLookup(netID)
             r == IF n = "none" THEN [status |-> "notfound", node |-> Empty]
                  ELSE ResolveNode(n, nodeID)
         IN  IF r.status = "ok" /\ ok
             THEN /\ net' = [net EXCEPT ![p] = n]
                  /\ target' = [target EXCEPT ![p] = r.node]
                  /\ cases' = [cases EXCEPT ![p] = batch]
                  /\ Goto(p, IF batch = <<>> THEN "done" ELSE "lock")
             ELSE /\ Goto(p, CASE r.status = "notfound" -> "notfound"
                               [] r.status = "panic"    -> "panicked"
                               [] OTHER                 -> "badpayload")
                  /\ UNCHANGED <<net, target, cases>>
    /\ UNCHANGED <<registry, drain, readers, shared, idx, results, locals, library, err>>

\* net.Lock(); net.EnterCase(evidence)
Lock(p) ==
    /\ pc[p] = "lock"
    /\ CanLock(lock, net[p])
    /\ lock' = [lock EXCEPT ![net[p]] = p]
    /\ cm' = [cm EXCEPT ![p] = cases[p][idx[p] + 1]]
    /\ Call(p, "ec_nodemap", "pn_entered")
    /\ UNCHANGED <<registry, drain, readers, findings, errq, request, library, err,
                   todo, cur, ev, st, val, ret, sav, cval, cbel>>

\* After EnterCase: on an error unlock, record it and continue with the
\* next case; otherwise node.Infer().
Entered(p) ==
    /\ pc[p] = "pn_entered"
    /\ IF err[p] # NoErr
       THEN /\ lock' = Unlocked(lock, net[p])
            /\ Record(p, err[p], Empty)
       ELSE /\ cur' = [cur EXCEPT ![p] = target[p]]
            /\ Call(p, "va_call", "pn_inferred")
            /\ UNCHANGED <<lock, idx, results, err,
                           cm, todo, ev, st, val, ret, sav, cval, cbel>>
    /\ UNCHANGED <<registry, drain, readers, findings, errq, net, target, cases, library>>

\* After Infer, with or without an error: net.ClearCases().  sav is the
\* err of Infer.
Inferred(p) ==
    /\ pc[p] = "pn_inferred"
    /\ sav' = [sav EXCEPT ![p] = err[p]]
    /\ Call(p, "cc", "pn_unlock")
    /\ UNCHANGED <<registry, drain, readers, shared, request, library, err,
                   cm, todo, cur, ev, st, val, ret, cval, cbel>>

\* net.Unlock() and the result of the case.
Unlock(p) ==
    /\ pc[p] = "pn_unlock"
    /\ lock' = Unlocked(lock, net[p])
    /\ Record(p, sav[p], IF sav[p] = NoErr THEN ret[p] ELSE Empty)
    /\ UNCHANGED <<registry, drain, readers, findings, errq, net, target, cases, library>>

\* ------------------------------------------------------------------------
\* The server: concurrent requests.
\* ------------------------------------------------------------------------

Next ==
    \E p \in Procs :
        \/ Request(p)
        \/ Lock(p)
        \/ Entered(p)
        \/ Inferred(p)
        \/ Unlock(p)
        \/ NodeMapCheck(p)
        \/ CaseLoop(p)
        \/ CaseEntered(p)
        \/ CaseReturn(p)
        \/ ClearCases(p)
        \/ EnterFindingStart(p)
        \/ StateNamedCheck(p)
        \/ SetStateCall(p)
        \/ SetValueCall(p)
        \/ SetCheck(p)
        \/ SetReturn(p)
        \/ ClearFindings(p)
        \/ ValueCall(p)
        \/ ValueCheck(p)
        \/ BeliefCall(p)
        \/ BeliefCheck(p)
        \/ NameCheck(p)
        \/ GetError_ns(p)
        \/ GetErrorTwice(p)
        \/ ClearedReportFaults(p)

Spec == Init /\ [][Next]_vars

\* ------------------------------------------------------------------------
\* The library: one caller uses the exported operations of Node and Network
\* one after the other, on the networks as the calls before left them.
\* obs keeps the operation, its evidence and the network's findings before
\* the call, until the call has returned.
\* ------------------------------------------------------------------------

Caller == "r1"

InitLibrary == InitCommon /\ pc = [p \in Procs |-> IF p = "r1" THEN "api" ELSE "off"]

\* Evidence strings: a number that is also a state name of n1.b, ordinals
\* inside and outside the states, "#" before a state name, state names
\* (defined, undefined, and one that reads as a number), a number too
\* large for a float64 and a hexadecimal number.
Tokens ==
    {Name42, NameH1, NameH7, NameHlo, NameLo, NameZz, NameInf, Name1e400,
     NameHexQuarter}

StateArgs == {-1, 0, 1, 3}

ValueArgs == {Num(FALSE, 42, 0)}

Begin(p, n, name, op, token) ==
    /\ pc[p] = "api"
    /\ calls < MaxCalls
    /\ calls' = calls + 1
    /\ net' = [net EXCEPT ![p] = n]
    /\ cur' = [cur EXCEPT ![p] = name]
    /\ obs' = [op |-> op, ev |-> token, pre |-> findings[n], last |-> obs.last]

\* node.EnterFinding(evidence)
CallEnterFinding(p) ==
    /\ \E n \in Nets : \E name \in NodeNames(n), token \in Tokens :
           /\ Begin(p, n, name, "EnterFinding", token)
           /\ ev' = [ev EXCEPT ![p] = token]
    /\ Call(p, "ef_start", "api_ret")
    /\ UNCHANGED <<registry, drain, readers, shared, target, cases, idx, results, err,
                   cm, todo, st, val, ret, sav, cval, cbel>>

\* node.SetState(state)
CallSetState(p) ==
    /\ \E n \in Nets : \E name \in NodeNames(n), s \in StateArgs :
           /\ Begin(p, n, name, "SetState", Empty)
           /\ st' = [st EXCEPT ![p] = s]
    /\ Call(p, "ss_call", "api_ret")
    /\ UNCHANGED <<registry, drain, readers, shared, target, cases, idx, results, err,
                   cm, todo, ev, val, ret, sav, cval, cbel>>

\* node.SetValue(value)
CallSetValue(p) ==
    /\ \E n \in Nets : \E name \in NodeNames(n), v \in ValueArgs :
           /\ Begin(p, n, name, "SetValue", Empty)
           /\ val' = [val EXCEPT ![p] = v]
    /\ Call(p, "sv_call", "api_ret")
    /\ UNCHANGED <<registry, drain, readers, shared, target, cases, idx, results, err,
                   cm, todo, ev, st, ret, sav, cval, cbel>>

\* node.ClearFindings()
CallClearFindings(p) ==
    /\ \E n \in Nets : \E name \in NodeNames(n) :
           Begin(p, n, name, "ClearFindings", Empty)
    /\ Call(p, "cf", "api_ret")
    /\ UNCHANGED <<registry, drain, readers, shared, target, cases, idx, results, err,
                   cm, todo, ev, st, val, ret, sav, cval, cbel>>

\* node.Infer()
CallInfer(p) ==
    /\ \E n \in Nets : \E name \in NodeNames(n) :
           Begin(p, n, name, "Infer", Empty)
    /\ Call(p, "va_call", "api_ret")
    /\ UNCHANGED <<registry, drain, readers, shared, target, cases, idx, results, err,
                   cm, todo, ev, st, val, ret, sav, cval, cbel>>

\* Case maps of the caller of the library: those of the requests, and one
\* with an undefined state for one node and a value for another.
LibraryCaseMaps == CaseMaps \cup {(NameA :> NameZz) @@ (NameB :> Name42)}

\* net.EnterCase(caseMap)
CallEnterCase(p) ==
    /\ \E n \in Nets, c \in LibraryCaseMaps :
           /\ Begin(p, n, Empty, "EnterCase", Empty)
           /\ cm' = [cm EXCEPT ![p] = c]
    /\ Call(p, "ec_nodemap", "api_ret")
    /\ UNCHANGED <<registry, drain, readers, shared, target, cases, idx, results, err,
                   todo, ev, st, val, ret, sav, cval, cbel>>

\* net.ClearCases()
CallClearCases(p) ==
    /\ \E n \in Nets : Begin(p, n, Empty, "ClearCases", Empty)
    /\ Call(p, "cc", "api_ret")
    /\ UNCHANGED <<registry, drain, readers, shared, target, cases, idx, results, err,
                   cm, todo, ev, st, val, ret, sav, cval, cbel>>

\* net.Lock(), as a call of the library's user.
CallLock(p) ==
    /\ pc[p] = "api"
    /\ calls < MaxCalls
    /\ calls' = calls + 1
    /\ \E n \in Nets :
           /\ CanLock(lock, n)
           /\ lock' = [lock EXCEPT ![n] = p]
    /\ UNCHANGED <<registry, drain, readers, findings, errq, request, locals,
                   pc, stack, err, obs>>

\* net.Unlock() by the holder of the lock (sync.RWMutex.Unlock of a lock
\* that is not held is a fatal error of the runtime).
CallUnlock(p) ==
    /\ pc[p] = "api"
    /\ calls < MaxCalls
    /\ calls' = calls + 1
    /\ \E n \in Nets :
           /\ lock[n] = p
           /\ lock' = Unlocked(lock, n)
    /\ UNCHANGED <<registry, drain, readers, findings, errq, request, locals,
                   pc, stack, err, obs>>

\* net.RLock()
CallRLock(p) ==
    /\ pc[p] = "api"
    /\ calls < MaxCalls
    /\ calls' = calls + 1
    /\ \E n \in Nets :
           /\ CanRLock(lock, n)
           /\ readers' = [readers EXCEPT ![n] = readers[n] + 1]
    /\ UNCHANGED <<registry, drain, shared, request, locals,
                   pc, stack, err, obs>>

\* net.RUnlock() by a reader that is inside (sync.RWMutex.RUnlock without
\* a reader is a fatal error of the runtime).
CallRUnlock(p) ==
    /\ pc[p] = "api"
    /\ calls < MaxCalls
    /\ calls' = calls + 1
    /\ \E n \in Nets :
           /\ readers[n] > 0
           /\ readers' = [readers EXCEPT ![n] = readers[n] - 1]
    /\ UNCHANGED <<registry, drain, shared, request, locals,
                   pc, stack, err, obs>>

\* env.CloseEnvironment(), as a call of the library's user between two
\* other calls: CloseNetica_bn closes the engine, and with it every
\* network, its findings and the reports in the queue, or returns an error
\* (res < 0) and closes nothing; netlocks is left as it is.  The caller
\* makes no call after this one: env.cMsg is freed either way, and after
\* the engine has closed the networks and nodes are gone.
CallCloseEnvironment(p) ==
    /\ pc[p] = "api"
    /\ \E res \in {-1, 0} :
           /\ Goto(p, IF res < 0 THEN "unclosed" ELSE "closed")
           /\ closed' = IF res < 0 THEN closed
                        ELSE closed \cup {nets[i] : i \in 1..Len(nets)}
           /\ findings' = IF res < 0 THEN findings
                          ELSE [n \in Nets |-> [name \in NodeNames(n) |-> NoFinding]]
           /\ errq' = IF res < 0 THEN errq ELSE <<>>
    /\ UNCHANGED <<walk, visited, nets, lookup, netlocks, logged, netJSONList,
                   netsJSON, phase, resp, lock, drain, readers, request, locals,
                   err, library>>

\* The call has returned to the caller.
Returned(p) ==
    /\ pc[p] = "api_ret"
    /\ Goto(p, "api")
    /\ Forget(p)
    /\ obs' = [NoObs EXCEPT !.last = [op |-> obs.op, net |-> net[p], node |-> cur[p],
                                      ev |-> obs.ev, pre |-> obs.pre,
                                      ret |-> ret[p], err |-> err[p]]]
    /\ UNCHANGED <<registry, drain, readers, shared, request, calls>>

NextLibrary ==
    \E p \in Procs :
        \/ CallEnterFinding(p)
        \/ CallSetState(p)
        \/ CallSetValue(p)
        \/ CallClearFindings(p)
        \/ CallInfer(p)
        \/ CallEnterCase(p)
        \/ CallClearCases(p)
        \/ Returned(p)
        \/ NodeMapCheck(p)
        \/ CaseLoop(p)
        \/ CaseEntered(p)
        \/ CaseReturn(p)
        \/ ClearCases(p)
        \/ EnterFindingStart(p)
        \/ StateNamedCheck(p)
        \/ SetStateCall(p)
        \/ SetValueCall(p)
        \/ SetCheck(p)
        \/ SetReturn(p)
        \/ ClearFindings(p)
        \/ ValueCall(p)
        \/ ValueCheck(p)
        \/ BeliefCall(p)
        \/ BeliefCheck(p)
        \/ NameCheck(p)
        \/ GetError_ns(p)
        \/ CallLock(p)
        \/ CallUnlock(p)
        \/ CallRLock(p)
        \/ CallRUnlock(p)
        \/ CallCloseEnvironment(p)

SpecLibrary == InitLibrary /\ [][NextLibrary]_vars

\* ------------------------------------------------------------------------
\* The round trip of a finding: the caller enters evidence on a node and
\* clears the node's findings, on a network on which one node may have a
\* finding from before.
\* ------------------------------------------------------------------------

\* The findings a node can have from an earlier SetState or SetValue.
EarlierFindings(def) ==
    {StateFinding(s - 1, <<Caller, 0>>) : s \in 1..Len(def.states)}
    \cup (IF def.real THEN {ValueFinding(v, <<Caller, 0>>) : v \in ValueArgs} ELSE {})

\* No findings, or one node with a finding.
PriorFindings ==
    {[n \in Nets |-> [name \in NodeNames(n) |-> NoFinding]]}
    \cup {[n \in Nets |-> [name \in NodeNames(n) |->
                IF n = m /\ name = node THEN f ELSE NoFinding]] :
            <<m, node, f>> \in UNION {UNION {{<<k, nm, g>> :
                g \in EarlierFindings(NodeDef(k, nm))} : nm \in NodeNames(k)} : k \in Nets}}

InitRoundTrip ==
    /\ findings \in PriorFindings
    /\ lock = [n \in Nets |-> "none"]
    /\ errq = <<>>
    /\ messages = [p \in Procs |-> <<>>]
    /\ raised = 0
    /\ readers = [n \in Nets |-> 0]
    /\ pc = [p \in Procs |-> IF p = Caller THEN "api" ELSE "off"]
    /\ stack = [p \in Procs |-> <<>>]
    /\ net = [p \in Procs |-> "none"]
    /\ target = [p \in Procs |-> Empty]
    /\ cases = [p \in Procs |-> <<>>]
    /\ idx = [p \in Procs |-> 0]
    /\ results = [p \in Procs |-> <<>>]
    /\ cm = [p \in Procs |-> <<>>]
    /\ todo = [p \in Procs |-> {}]
    /\ cur = [p \in Procs |-> Empty]
    /\ ev = [p \in Procs |-> Empty]
    /\ st = [p \in Procs |-> 0]
    /\ val = [p \in Procs |-> Zero]
    /\ err = [p \in Procs |-> NoErr]
    /\ ret = [p \in Procs |-> Empty]
    /\ sav = [p \in Procs |-> NoErr]
    /\ cval = [p \in Procs |-> UndefDbl]
    /\ cbel = [p \in Procs |-> <<>>]
    /\ calls = 0
    /\ obs = NoObs
    /\ RegistryLoaded

NextRoundTrip ==
    \E p \in Procs :
        \/ CallEnterFinding(p)
        \/ CallClearFindings(p)
        \/ Returned(p)
        \/ EnterFindingStart(p)
        \/ StateNamedCheck(p)
        \/ SetStateCall(p)
        \/ SetValueCall(p)
        \/ SetCheck(p)
        \/ SetReturn(p)
        \/ ClearFindings(p)
        \/ GetError_ns(p)

SpecRoundTrip == InitRoundTrip /\ [][NextRoundTrip]_vars

\* ------------------------------------------------------------------------
\* Two accepted requests for the same network: r1 with a batch of MaxCases
\* cases, r2 with a single case.  The batch loops run from here.
\* ------------------------------------------------------------------------

InitAccepted ==
    /\ findings = [n \in Nets |-> [name \in NodeNames(n) |-> NoFinding]]
    /\ lock = [n \in Nets |-> "none"]
    /\ errq = <<>>
    /\ messages = [p \in Procs |-> <<>>]
    /\ raised = 0
    /\ readers = [n \in Nets |-> 0]
    /\ pc = [p \in Procs |-> "lock"]
    /\ stack = [p \in Procs |-> <<>>]
    /\ \E n \in Nets :
           /\ net = [p \in Procs |-> n]
           /\ target \in [Procs -> NodeNames(n)]
    /\ cases \in [Procs -> UNION {[1..k -> CaseMaps] : k \in 1..MaxCases}]
    /\ Len(cases["r1"]) = MaxCases
    /\ Len(cases["r2"]) = 1
    /\ idx = [p \in Procs |-> 0]
    /\ results = [p \in Procs |-> <<>>]
    /\ cm = [p \in Procs |-> <<>>]
    /\ todo = [p \in Procs |-> {}]
    /\ cur = [p \in Procs |-> Empty]
    /\ ev = [p \in Procs |-> Empty]
    /\ st = [p \in Procs |-> 0]
    /\ val = [p \in Procs |-> Zero]
    /\ err = [p \in Procs |-> NoErr]
    /\ ret = [p \in Procs |-> Empty]
    /\ sav = [p \in Procs |-> NoErr]
    /\ cval = [p \in Procs |-> UndefDbl]
    /\ cbel = [p \in Procs |-> <<>>]
    /\ calls = 0
    /\ obs = NoObs
    /\ RegistryLoaded

\* A step of the batch loop of request p.
CaseStep(p) ==
    \/ Lock(p)
    \/ Entered(p)
    \/ Inferred(p)
    \/ Unlock(p)
    \/ NodeMapCheck(p)
    \/ CaseLoop(p)
    \/ CaseEntered(p)
    \/ CaseReturn(p)
    \/ ClearCases(p)
    \/ EnterFindingStart(p)
    \/ StateNamedCheck(p)
    \/ SetStateCall(p)
    \/ SetValueCall(p)
    \/ SetCheck(p)
    \/ SetReturn(p)
    \/ ClearFindings(p)
    \/ ValueCall(p)
    \/ ValueCheck(p)
    \/ BeliefCall(p)
    \/ BeliefCheck(p)
    \/ NameCheck(p)
    \/ GetError_ns(p)

NextAccepted == \E p \in Procs : CaseStep(p)

SpecAccepted == InitAccepted /\ [][NextAccepted]_vars

\* Fair scheduling: a request whose handler can take a step will take it
\* (the Go scheduler runs every runnable goroutine, and a goroutine that
\* waits for a mutex gets it once the mutex stays free).
FairAccepted == SpecAccepted /\ \A p \in Procs : WF_vars(CaseStep(p))

\* ------------------------------------------------------------------------
\* The start of the server (gncli/cmd/serve.go, serveJSON.go): indexNets
\* walks the directory and registers the networks, buildJSON describes
\* them, then requests are served.  A network is known by the position of
\* its file in the walk.
\* ------------------------------------------------------------------------

\* Files filepath.Walk visits.
MaxFiles == 3

Name0 == <<"0">>
Name1 == <<"1">>

\* Names a network file can declare.
LoadNames == {NameN1, NameN2, Name0, Name1}

\* A file of the directory: a network that loads ("net"), a .dne or .neta
\* file NewNetwork fails on ("bad"), a directory or a file with another
\* extension ("other"), or a name that os.Lstat fails on ("gone").
Files ==
    [kind : {"net"}, name : LoadNames]
    \cup [kind : {"bad", "other", "gone"}, name : {Empty}]

\* The nodes of the network a file declares.
LoadNodes(name) == IF name = NameN2 THEN {NameA, NameC} ELSE {NameA, NameB}

\* No request is being served and the engine has no findings.
NoRequests ==
    /\ findings = [n \in Nets |-> [name \in NodeNames(n) |-> NoFinding]]
    /\ lock = [n \in Nets |-> "none"]
    /\ errq = <<>>
    /\ messages = [p \in Procs |-> <<>>]
    /\ raised = 0
    /\ readers = [n \in Nets |-> 0]
    /\ pc = [p \in Procs |-> "off"]
    /\ stack = [p \in Procs |-> <<>>]
    /\ net = [p \in Procs |-> "none"]
    /\ target = [p \in Procs |-> Empty]
    /\ cases = [p \in Procs |-> <<>>]
    /\ idx = [p \in Procs |-> 0]
    /\ results = [p \in Procs |-> <<>>]
    /\ cm = [p \in Procs |-> <<>>]
    /\ todo = [p \in Procs |-> {}]
    /\ cur = [p \in Procs |-> Empty]
    /\ ev = [p \in Procs |-> Empty]
    /\ st = [p \in Procs |-> 0]
    /\ val = [p \in Procs |-> Zero]
    /\ err = [p \in Procs |-> NoErr]
    /\ ret = [p \in Procs |-> Empty]
    /\ sav = [p \in Procs |-> NoErr]
    /\ cval = [p \in Procs |-> UndefDbl]
    /\ cbel = [p \in Procs |-> <<>>]
    /\ calls = 0
    /\ obs = NoObs

InitLoad ==
    /\ NoRequests
    /\ \E k \in 0..MaxFiles : \E fs \in [1..k -> Files] :
           walk = [i \in 1..k |-> [id |-> i, kind |-> fs[i].kind, name |-> fs[i].name]]
    /\ visited = 0
    /\ nets = <<>>
    /\ lookup = <<>>
    /\ netlocks = {}
    /\ closed = {}
    /\ logged = <<>>
    /\ netJSONList = <<>>
    /\ netsJSON = <<>>
    /\ phase = "index"
    /\ resp = [handler |-> "none"]

\* The variables of the requests and of the engine's findings.
serving == <<findings, lock, errq, messages, raised, readers, pc, stack, net, target, cases, idx, results,
             cm, todo, cur, ev, st, val, err, ret, sav, cval, cbel, calls, obs>>

\* Variant: no name counts as loaded.
NeverLoaded(l, name) == FALSE

\* indexNets: lookup[name] != nil
AlreadyLoaded(l, name) == name \in DOMAIN l

\* lookup[key] = file, for a map kept as a function.
Put(l, key, file) ==
    [k \in DOMAIN l \cup {key} |-> IF k = key THEN file ELSE l[k]]

\* NewNetwork, on success: net.env.netlocks[net.c] = new(sync.RWMutex)
Created(locks, id) == locks \cup {id}

\* Variant: CloseNetwork leaves the lock in the table.
StillThere(locks, id) == locks

\* CloseNetwork: delete(net.env.netlocks, net.c)
Deleted(locks, id) == locks \ {id}

\* The file the walk calls the callback with.
ThisFile == walk[visited + 1]

\* Variant: a file that does not load ends the walk.
WalkEnds(w, v) == Len(w)

\* The callback logs the error of NewNetwork and returns nil: the walk goes
\* on with the next file.
AfterLoadFailure(w, v) == v + 1

\* The walk passes a directory or a file that is not a network file.
WalkOther ==
    /\ phase = "index"
    /\ visited < Len(walk)
    /\ ThisFile.kind = "other"
    /\ visited' = visited + 1
    /\ UNCHANGED <<serving, walk, nets, lookup, netlocks, closed, logged,
                   netJSONList, netsJSON, phase, resp>>

\* os.Lstat fails: filepath.Walk calls the callback with a nil info and the
\* error; the callback does not look at the error and calls info.IsDir(),
\* which panics.  Nothing recovers a panic during the start.
WalkPanics ==
    /\ phase = "index"
    /\ visited < Len(walk)
    /\ ThisFile.kind = "gone"
    /\ phase' = "crashed"
    /\ UNCHANGED <<serving, walk, visited, nets, lookup, netlocks, closed, logged,
                   netJSONList, netsJSON, resp>>

\* NewNetwork returns an error: the file is logged and passed over.
WalkLoadFails ==
    /\ phase = "index"
    /\ visited < Len(walk)
    /\ ThisFile.kind = "bad"
    /\ visited' = AfterLoadFailure(walk, visited)
    /\ logged' = Append(logged, ThisFile.id)
    /\ UNCHANGED <<serving, walk, nets, lookup, netlocks, closed,
                   netJSONList, netsJSON, phase, resp>>

\* NewNetwork succeeds (and has put the network's lock into netlocks), but
\* the name is a key of lookup: CloseNetwork, log, pass over.
WalkDuplicate ==
    /\ phase = "index"
    /\ visited < Len(walk)
    /\ ThisFile.kind = "net"
    /\ AlreadyLoaded(lookup, ThisFile.name)
    /\ visited' = visited + 1
    /\ closed' = closed \cup {ThisFile}
    /\ netlocks' = Deleted(Created(netlocks, ThisFile.id), ThisFile.id)
    /\ logged' = Append(logged, ThisFile.id)
    /\ UNCHANGED <<serving, walk, nets, lookup, netJSONList, netsJSON, phase, resp>>

\* NewNetwork succeeds and the name is no key of lookup: the network is
\* appended to nets and put into lookup under its name and under the
\* decimal string of its index.
WalkRegister ==
    /\ phase = "index"
    /\ visited < Len(walk)
    /\ ThisFile.kind = "net"
    /\ ~AlreadyLoaded(lookup, ThisFile.name)
    /\ visited' = visited + 1
    /\ nets' = Append(nets, ThisFile)
    /\ lookup' = Put(Put(lookup, ThisFile.name, ThisFile),
                     Itoa(Len(nets)), ThisFile)
    /\ netlocks' = Created(netlocks, ThisFile.id)
    /\ UNCHANGED <<serving, walk, closed, logged, netJSONList, netsJSON, phase, resp>>

\* filepath.Walk is through: indexNets returns nets and lookup without an
\* error, initServe stores them.
IndexDone ==
    /\ phase = "index"
    /\ visited = Len(walk)
    /\ phase' = "build"
    /\ UNCHANGED <<serving, walk, visited, nets, lookup, netlocks, closed, logged,
                   netJSONList, netsJSON, resp>>

\* Networks of one start whose description fails in the engine.
MaxBuildFailures == 1

\* Network.NodeList of a loaded network.
NodesOf(file) == SortStrings(LoadNodes(file.name))

\* What the engine does while a network is described: NodeList succeeds or
\* not, and StateNameList and LevelList succeed for the first described
\* nodes of the list.
BuildOutcomes(file) ==
    [listed : BOOLEAN, described : 0..Len(NodesOf(file))]

Complete(file, o) == o.listed /\ o.described = Len(NodesOf(file))

\* buildJSON's two checks of err after NodeList: the err that the node
\* loop assigns is a variable of the loop's body, so both checks see
\* NodeList's.
SkippedByBuild(o) == ~o.listed

\* buildJSON's loop from network i on; acc is list and nets so far.
RECURSIVE BuildFrom(_, _, _, _)
BuildFrom(ns, out, i, acc) ==
    IF i > Len(ns) THEN acc
    ELSE IF SkippedByBuild(out[i]) THEN BuildFrom(ns, out, i + 1, acc)
    ELSE LET netRepr == [index |-> i - 1, name |-> ns[i].name, nodes |-> <<>>]
             modRepr == [netRepr EXCEPT
                            !.nodes = SubSeq(NodesOf(ns[i]), 1, out[i].described)]
         IN  BuildFrom(ns, out, i + 1,
                       [list |-> Append(acc.list, netRepr),
                        nets |-> Put(Put(acc.nets, modRepr.name, modRepr),
                                     Itoa(i - 1), modRepr)])

\* serveJSON: netJSONList, netsJSON, err = buildJSON(); err is nil.
BuildJSON ==
    /\ phase = "build"
    /\ \E out \in [1..Len(nets) -> [listed : BOOLEAN, described : 0..2]] :
         /\ \A i \in 1..Len(nets) : out[i] \in BuildOutcomes(nets[i])
         /\ \A i \in 1..Len(nets) : ~out[i].listed => out[i].described = 0
         /\ Cardinality({i \in 1..Len(nets) : ~Complete(nets[i], out[i])})
                <= MaxBuildFailures
         /\ LET built == BuildFrom(nets, out, 1, [list |-> <<>>, nets |-> <<>>])
            IN  /\ netJSONList' = built.list
                /\ netsJSON' = built.nets
    /\ phase' = "serving"
    /\ UNCHANGED <<serving, walk, visited, nets, lookup, netlocks, closed, logged, resp>>

\* r.PathParam("nodeid") of the requests to a started server.
LoadNodeIDs ==
    {NameA, NameC, <<"0">>, <<"1">>, <<"2">>, <<"-", "1">>, <<"+", "1">>, <<"x">>}

NotFound(handler, netID, nodeID) ==
    [handler |-> handler, netID |-> netID, nodeID |-> nodeID,
     status |-> "notfound"]

Found(handler, netID, nodeID, body) ==
    [handler |-> handler, netID |-> netID, nodeID |-> nodeID,
     status |-> "ok", body |-> body]

\* The recover middleware of rest.DefaultProdStack answers a panicking
\* handler with an internal server error.
Recovered(handler, netID, nodeID) ==
    [handler |-> handler, netID |-> netID, nodeID |-> nodeID,
     status |-> "panic"]

\* getNetNode's loop over repr.Nodes: the first node whose index prints as
\* nodeID or whose name is nodeID; 0 if there is none.
DescribedAt(described, nodeID) ==
    IF \E i \in 1..Len(described) :
           Itoa(i - 1) = nodeID \/ described[i] = nodeID
    THEN CHOOSE i \in 1..Len(described) :
             /\ Itoa(i - 1) = nodeID \/ described[i] = nodeID
             /\ \A j \in 1..(i - 1) :
                    ~(Itoa(j - 1) = nodeID \/ described[j] = nodeID)
    ELSE 0

\* Variant: the router takes requests from the start of the process.
ListensAtOnce(ph) == TRUE

\* http.ListenAndServe is the last statement of serveJSON: requests reach
\* the handlers once initServe and buildJSON have returned without an error.
Listening(ph) == ph = "serving"

\* The handlers below change nothing but the response, so the states of a
\* server that answers one request are those of a server that answers many.
Unanswered == resp.handler = "none"

GetNets ==
    /\ Listening(phase)
    /\ Unanswered
    /\ resp' = Found("getNets", Empty, Empty, netJSONList)
    /\ UNCHANGED <<serving, walk, visited, nets, lookup, netlocks, closed, logged,
                   netJSONList, netsJSON, phase>>

GetNet ==
    /\ Listening(phase)
    /\ Unanswered
    /\ \E netID \in NetIDs :
         resp' = IF netID \in DOMAIN netsJSON
                 THEN Found("getNet", netID, Empty, netsJSON[netID])
                 ELSE NotFound("getNet", netID, Empty)
    /\ UNCHANGED <<serving, walk, visited, nets, lookup, netlocks, closed, logged,
                   netJSONList, netsJSON, phase>>

GetNetNodes ==
    /\ Listening(phase)
    /\ Unanswered
    /\ \E netID \in NetIDs :
         resp' = IF netID \in DOMAIN netsJSON
                 THEN Found("getNetNodes", netID, Empty, netsJSON[netID].nodes)
                 ELSE NotFound("getNetNodes", netID, Empty)
    /\ UNCHANGED <<serving, walk, visited, nets, lookup, netlocks, closed, logged,
                   netJSONList, netsJSON, phase>>

GetNetNode ==
    /\ Listening(phase)
    /\ Unanswered
    /\ \E netID \in NetIDs, nodeID \in LoadNodeIDs :
         resp' = IF netID \in DOMAIN netsJSON
                 THEN LET described == netsJSON[netID].nodes
                          at == DescribedAt(described, nodeID)
                      IN  IF at > 0
                          THEN Found("getNetNode", netID, nodeID,
                                     [index |-> at - 1, name |-> described[at]])
                          ELSE NotFound("getNetNode", netID, nodeID)
                 ELSE NotFound("getNetNode", netID, nodeID)
    /\ UNCHANGED <<serving, walk, visited, nets, lookup, netlocks, closed, logged,
                   netJSONList, netsJSON, phase>>

\* postNetNode with a payload that decodes and holds no cases: the target is
\* resolved and an empty batch is written.
PostNetNode ==
    /\ Listening(phase)
    /\ Unanswered
    /\ \E netID \in NetIDs, nodeID \in LoadNodeIDs :
         resp' = IF netID \in DOMAIN netsJSON
                 THEN LET r == PostNode(LoadNodes(lookup[netID].name),
                                        netsJSON[netID].nodes, nodeID)
                      IN  CASE r.status = "ok" ->
                                 Found("postNetNode", netID, nodeID,
                                       [net |-> lookup[netID].id, node |-> r.node,
                                        results |-> <<>>])
                            [] r.status = "panic" ->
                                 Recovered("postNetNode", netID, nodeID)
                            [] OTHER -> NotFound("postNetNode", netID, nodeID)
                 ELSE NotFound("postNetNode", netID, nodeID)
    /\ UNCHANGED <<serving, walk, visited, nets, lookup, netlocks, closed, logged,
                   netJSONList, netsJSON, phase>>

NextLoad ==
    \/ WalkOther
    \/ WalkPanics
    \/ WalkLoadFails
    \/ WalkDuplicate
    \/ WalkRegister
    \/ IndexDone
    \/ BuildJSON
    \/ GetNets
    \/ GetNet
    \/ GetNetNodes
    \/ GetNetNode
    \/ PostNetNode

SpecLoad == InitLoad /\ [][NextLoad]_vars

\* ------------------------------------------------------------------------
\* The library's NewNetwork and CloseNetwork, called by one caller in any
\* order: walk holds the paths NewNetwork is called with, nets the networks
\* it has returned, closed those that CloseNetwork was called on.
\* ------------------------------------------------------------------------

\* Paths of network files: one that loads, or one NewNetwork fails on.
Loadable == {f \in Files : f.kind \in {"net", "bad"}}

InitNetworks ==
    /\ NoRequests
    /\ \E k \in 0..MaxFiles : \E fs \in [1..k -> Loadable] :
           walk = [i \in 1..k |-> [id |-> i, kind |-> fs[i].kind, name |-> fs[i].name]]
    /\ visited = 0
    /\ nets = <<>>
    /\ lookup = <<>>
    /\ netlocks = {}
    /\ closed = {}
    /\ logged = <<>>
    /\ netJSONList = <<>>
    /\ netsJSON = <<>>
    /\ phase = "library"
    /\ resp = [handler |-> "none"]

\* NewNetwork(environment, path) returns a network.
NewNetworkLoads ==
    /\ phase = "library"
    /\ visited < Len(walk)
    /\ ThisFile.kind = "net"
    /\ visited' = visited + 1
    /\ nets' = Append(nets, ThisFile)
    /\ netlocks' = Created(netlocks, ThisFile.id)
    /\ UNCHANGED <<serving, walk, lookup, closed, logged, netJSONList, netsJSON,
                   phase, resp>>

\* NewNetwork(environment, path) returns an error.
NewNetworkFails ==
    /\ phase = "library"
    /\ visited < Len(walk)
    /\ ThisFile.kind = "bad"
    /\ visited' = visited + 1
    /\ logged' = Append(logged, ThisFile.id)
    /\ UNCHANGED <<serving, walk, nets, lookup, netlocks, closed, netJSONList,
                   netsJSON, phase, resp>>

\* net.CloseNetwork() on a network that is open.
CloseNetwork ==
    /\ phase = "library"
    /\ \E i \in 1..Len(nets) :
         /\ nets[i] \notin closed
         /\ closed' = closed \cup {nets[i]}
         /\ netlocks' = Deleted(netlocks, nets[i].id)
    /\ UNCHANGED <<serving, walk, visited, nets, lookup, logged, netJSONList,
                   netsJSON, phase, resp>>

\* env.CloseEnvironment(): CloseNetica_bn closes the engine and with it
\* every network that is open, or returns an error (res < 0) and closes
\* nothing; netlocks is left as it is.  The caller makes no call on the
\* environment after this one: env.cMsg is freed either way.
CloseEnvironment ==
    /\ phase = "library"
    /\ \E res \in {-1, 0} :
           /\ phase' = IF res < 0 THEN "unclosed" ELSE "closed"
           /\ closed' = IF res < 0 THEN closed
                        ELSE closed \cup {nets[i] : i \in 1..Len(nets)}
    /\ UNCHANGED <<serving, walk, visited, nets, lookup, netlocks, logged,
                   netJSONList, netsJSON, resp>>

NextNetworks ==
    \/ NewNetworkLoads
    \/ NewNetworkFails
    \/ CloseNetwork
    \/ CloseEnvironment

SpecNetworks == InitNetworks /\ [][NextNetworks]_vars

\* ------------------------------------------------------------------------
\* Properties of the server (Spec)
\* ------------------------------------------------------------------------

\* Where a request is while Node.Infer runs for its case.
InferLabels == {"va_call", "va_check", "be_call", "be_check", "nm_check"}

\* The request is inside a case: after net.Lock(), before net.Unlock().
InCase(p) ==
    pc[p] \notin {"idle", "lock", "done", "notfound", "panicked",
                  "badpayload", "off", "api", "api_ret", "crashed"}

\* The finding an evidence string stands for on a node: the value it reads
\* as, else the state after "#", else the state of that name.
EvidenceFinding(def, evidence, by) ==
    IF ParsedFloat(evidence).ok
    THEN ValueFinding(ParsedFloat(evidence).val, by)
    ELSE IF HasHashPrefix(evidence) /\ Atoi(Tail(evidence)).ok
    THEN StateFinding(Atoi(Tail(evidence)).val, by)
    ELSE StateFinding(GetStateNamed_bn(def, evidence), by)

\* C1: while Infer runs for a case, every finding of the network was entered
\* by that case, on a node the case names and from the evidence the case
\* gives for it; no finding of another case, of the same batch or of another
\* request, is present.
C1_OwnFindingsOnly ==
    \A p \in Procs :
        pc[p] \in InferLabels =>
            /\ cm[p] = cases[p][idx[p] + 1]
            /\ \A name \in NodeNames(net[p]) :
                   \/ findings[net[p]][name] = NoFinding
                   \/ /\ name \in DOMAIN cm[p]
                      /\ findings[net[p]][name] =
                             EvidenceFinding(NodeDef(net[p], name), cm[p][name],
                                             <<p, idx[p]>>)

\* Infer runs for a case with two findings of its own on a network on which
\* another request has completed a case with findings before.
C1_Witness ==
    \E p, q \in Procs :
        /\ p # q
        /\ pc[p] \in InferLabels
        /\ net[q] = net[p]
        /\ Len(results[q]) = 1
        /\ results[q][1].error = NoErr
        /\ NameB \in DOMAIN cases[q][1]
        /\ NameB \in NodeNames(net[p])
        /\ findings[net[p]][NameA] = StateFinding(1, <<p, 0>>)
        /\ findings[net[p]][NameB] = ValueFinding(Num(FALSE, 42, 0), <<p, 0>>)

\* C2: at most one request is inside a case of a given network, and it is
\* the holder of the network's lock.
C2_OneCaseAtATime ==
    /\ \A p \in Procs : InCase(p) => lock[net[p]] = p
    /\ \A p, q \in Procs :
           p # q /\ InCase(p) /\ InCase(q) => net[p] # net[q]

\* A request is inside a case while another request, with a case for the
\* same network, waits for the lock.
C2_Witness ==
    \E p, q \in Procs :
        /\ p # q
        /\ pc[p] \in InferLabels
        /\ pc[q] = "lock"
        /\ net[q] = net[p]

\* C3: a network whose lock no request holds has no findings.
C3_CleanWhenUnlocked ==
    \A n \in Nets :
        lock[n] = "none" => \A name \in NodeNames(n) : findings[n][name] = NoFinding

\* A batch whose first case failed in EnterCase and whose second case went
\* through Infer has released the lock.
C3_Witness ==
    \E p \in Procs :
        /\ Len(results[p]) = 2
        /\ cases[p][1] = (NameA :> NameZz)
        /\ results[p][1].error = UndefStateErr
        /\ DOMAIN cases[p][2] = {NameA, NameB}
        /\ results[p][2].error.k = "engine"
        /\ lock[net[p]] = "none"

\* C4: the results of a batch are numbered 0, 1, 2, ... in the order they
\* were recorded, and a finished batch has one result per case.
C4_ResultsAligned ==
    \A p \in Procs :
        /\ \A i \in 1..Len(results[p]) : results[p][i].index = i - 1
        /\ pc[p] = "done" => Len(results[p]) = Len(cases[p])

\* A finished batch of two cases, the first failed and the second not.
C4_Witness ==
    \E p \in Procs :
        /\ pc[p] = "done"
        /\ Len(cases[p]) = 2
        /\ results[p][1].error # NoErr
        /\ results[p][2].error = NoErr

\* The case in progress is the first without a result, and a request that
\* waits for the lock does not hold it.
CaseOrder ==
    \A p \in Procs :
        /\ pc[p] = "lock" =>
               /\ idx[p] = Len(results[p])
               /\ idx[p] < Len(cases[p])
               /\ lock[net[p]] # p
        /\ InCase(p) =>
               /\ idx[p] = Len(results[p])
               /\ cm[p] = cases[p][idx[p] + 1]

\* A step that records a result, of a failure or not, releases the lock
\* and goes on to the next case when there is one.
RecordStep ==
    \A p \in Procs :
        Len(results'[p]) # Len(results[p]) =>
            /\ InCase(p)
            /\ SubSeq(results'[p], 1, Len(results[p])) = results[p]
            /\ Len(results'[p]) = Len(results[p]) + 1
            /\ lock'[net[p]] = "none"
            /\ pc'[p] = IF Len(results'[p]) < Len(cases[p]) THEN "lock" ELSE "done"

\* C5: the cases of a batch are processed in input order, case i+1 starts
\* only after case i has recorded its result and released the lock, and a
\* failed case is followed by the next case like any other.
C5_InOrderNoAbort == []CaseOrder /\ [][RecordStep]_vars

\* The second case of a batch is inside Infer after the first case failed.
C5_Witness ==
    \E p \in Procs :
        /\ pc[p] \in InferLabels
        /\ idx[p] = 1
        /\ results[p][1].error # NoErr

\* ------------------------------------------------------------------------
\* Properties of the library (SpecLibrary)
\* ------------------------------------------------------------------------

\* The call of op has returned and the caller looks at the result.
ReturnedFrom(op) == pc[Caller] = "api_ret" /\ obs.op = op

\* The network has no findings.
NoFindings(n) == \A name \in NodeNames(n) : findings[n][name] = NoFinding

\* C6 as stated: after EnterCase returned an error the findings of the
\* network are the findings it had before the call.
C6_RestoredOnFailure ==
    ReturnedFrom("EnterCase") /\ err[Caller] # NoErr =>
        findings[net[Caller]] = obs.pre

\* C6: after EnterCase returned the error of a node-evidence pair the
\* network has no findings at all: neither those entered in the call nor
\* those it had before the call.
C6_EmptyOnFailure ==
    ReturnedFrom("EnterCase") /\ err[Caller] # NoErr =>
        NoFindings(net[Caller])

\* EnterCase has failed on the second of two pairs, on a network that had a
\* finding before the call.
C6_Witness ==
    /\ ReturnedFrom("EnterCase")
    /\ err[Caller] # NoErr
    /\ DOMAIN cm[Caller] = {NameA, NameB}
    /\ net[Caller] = "n1"
    /\ todo[Caller] = {}
    /\ \E name \in NodeNames("n1") : obs.pre[name] # NoFinding

\* C7 as stated: when SetState, SetValue or EnterFinding returns an error
\* the node has no finding.
C7_NodeRetractedOnFailure ==
    /\ pc[Caller] = "api_ret"
    /\ obs.op \in {"SetState", "SetValue", "EnterFinding"}
    /\ err[Caller] # NoErr
    => Finding(Caller) = NoFinding

\* C8: EnterFinding enters the value of an evidence string that reads as a
\* real number, else the state after "#" when an integer follows it, else
\* the state whose name is the whole string.  "42" enters the value 42 on a
\* node with a state of that name, and "#lo" is not the state named "lo".
C8_NumberOrdinalName ==
    ReturnedFrom("EnterFinding") =>
        /\ err[Caller] = NoErr =>
               Finding(Caller) = EvidenceFinding(Def(Caller), obs.ev, <<Caller, 0>>)
        /\ err[Caller] = UndefStateErr =>
               /\ ~ParsedFloat(obs.ev).ok
               /\ ~(HasHashPrefix(obs.ev) /\ Atoi(Tail(obs.ev)).ok)
               /\ \A i \in 1..Len(Def(Caller).states) :
                      Def(Caller).states[i] # obs.ev
        /\ obs.ev = Name42 /\ err[Caller] = NoErr =>
               Finding(Caller) = ValueFinding(Num(FALSE, 42, 0), <<Caller, 0>>)
        /\ obs.ev = NameHlo =>
               /\ err[Caller] = UndefStateErr
               /\ Finding(Caller) = obs.pre[cur[Caller]]

\* "42" has been entered on the node of n1 that has a state named "42".
C8_Witness ==
    /\ ReturnedFrom("EnterFinding")
    /\ obs.ev = Name42
    /\ net[Caller] = "n1"
    /\ cur[Caller] = NameB
    /\ \E i \in 1..Len(Def(Caller).states) : Def(Caller).states[i] = Name42
    /\ err[Caller] = NoErr
    /\ Finding(Caller).k = "value"

\* C9 as stated: Infer goes on to the state estimate only after the
\* undefined expected value, and returns an engine error of the expected
\* value query as it is, without a state.
C9_FallbackOnlyWhenUndefined ==
    /\ obs.op = "Infer" /\ pc[Caller] \in {"be_call", "be_check", "nm_check"} =>
           sav[Caller] = UndefValueErr
    /\ ReturnedFrom("Infer") /\ sav[Caller].k = "engine" =>
           err[Caller] = sav[Caller] /\ ret[Caller] = Empty

\* The call of Infer has ended: it has returned, or it has stopped in the
\* run-time panic of Node.State.
InferEnded == obs.op = "Infer" /\ pc[Caller] \in {"api_ret", "panic"}

\* C10 as stated: after the undefined expected value Infer returns a state.
C10_AlwaysAState ==
    InferEnded /\ sav[Caller] = UndefValueErr =>
        pc[Caller] = "api_ret" /\ err[Caller] = NoErr /\ ret[Caller] # Empty

\* C10: Infer never returns the undefined-value error.  After the undefined
\* expected value, on a node that has states, it returns either the error
\* of the engine, without a string, or the most likely state, the first
\* index of the greatest belief: its name, or "#" and its index when the
\* name is empty.  On a node without states it returns the error of the
\* engine or, when the belief query raised none, does not return: State
\* stops in a run-time panic.  Infer stops so on no other node.
C10_NeverUndefined ==
    InferEnded =>
        /\ err[Caller] # UndefValueErr
        /\ pc[Caller] = "panic" =>
               Def(Caller).states = <<>> /\ cbel[Caller] = <<>>
        /\ pc[Caller] = "api_ret" /\ sav[Caller] = UndefValueErr =>
               \/ err[Caller].k = "engine" /\ ret[Caller] = Empty
               \/ /\ err[Caller] = NoErr
                  /\ Def(Caller).states # <<>>
                  /\ \E i \in 1..Len(cbel[Caller]) :
                         /\ \A j \in 1..Len(cbel[Caller]) :
                                cbel[Caller][j] <= cbel[Caller][i]
                         /\ \A j \in 1..(i - 1) :
                                cbel[Caller][j] < cbel[Caller][i]
                         /\ ret[Caller] =
                                IF Def(Caller).states[i] # Empty
                                THEN Def(Caller).states[i]
                                ELSE <<"#">> \o Itoa(i - 1)

\* Infer has returned "#0" for a node whose expected value is undefined and
\* whose most likely state, the first of two of the greatest belief, has no
\* name.
C10_Witness ==
    /\ ReturnedFrom("Infer")
    /\ sav[Caller] = UndefValueErr
    /\ err[Caller] = NoErr
    /\ cbel[Caller] = <<5, 5, 2>>
    /\ ret[Caller] = <<"#", "0">>

\* C11: the index State returns has the greatest belief of the list, and
\* every index before it has a smaller belief.
C11_FirstMaximum ==
    obs.op = "Infer" /\ pc[Caller] = "nm_check" =>
        /\ st[Caller] \in 0..(Len(cbel[Caller]) - 1)
        /\ \A j \in 1..Len(cbel[Caller]) :
               cbel[Caller][j] <= cbel[Caller][st[Caller] + 1]
        /\ \A j \in 1..st[Caller] :
               cbel[Caller][j] < cbel[Caller][st[Caller] + 1]

\* State has returned 1 for the beliefs [0.2, 0.5, 0.5].
C11_Witness ==
    /\ obs.op = "Infer"
    /\ pc[Caller] = "nm_check"
    /\ cbel[Caller] = <<2, 5, 5>>
    /\ st[Caller] = 1

\* err.Error(), as far as its length matters: no text without an error,
\* one message for each drained report of the engine, one message for an
\* error made by fmt.Errorf.
ErrorText(e) ==
    IF e = NoErr THEN Empty
    ELSE IF e.k = "engine" THEN [i \in 1..Len(e.from) |-> "E"]
    ELSE <<"F">>

\* C12: every result of a batch has either an error text and no value, or
\* a value and no error text.
C12_ErrorOrValue ==
    \A p \in Procs : \A i \in 1..Len(results[p]) :
        \/ ErrorText(results[p][i].error) # Empty /\ results[p][i].value = Empty
        \/ ErrorText(results[p][i].error) = Empty /\ results[p][i].value # Empty

\* A batch with a failed case and a case whose value is the token of a
\* state without a name.
C12_Witness ==
    \E p \in Procs :
        /\ Len(results[p]) = 2
        /\ results[p][1].error # NoErr
        /\ results[p][2].error = NoErr
        /\ results[p][2].value = <<"#", "0">>

\* ------------------------------------------------------------------------
\* Properties of the batch loops (SpecAccepted)
\* ------------------------------------------------------------------------

\* C13: a request holds a network's lock only while it is inside a case;
\* before its first case, between two cases and after its last case it
\* holds no lock, so the lock is free for a case of another request.
C13_LockPerCase ==
    \A p \in Procs :
        /\ ~InCase(p) => \A n \in Nets : lock[n] # p
        /\ InCase(p) => \A n \in Nets : lock[n] = p <=> n = net[p]

\* The case of r2 is inside Infer between the two cases of r1's batch on
\* the same network.
C13_Witness ==
    /\ net["r2"] = net["r1"]
    /\ Len(cases["r1"]) = 2
    /\ idx["r1"] = 1
    /\ Len(results["r1"]) = 1
    /\ pc["r1"] = "lock"
    /\ pc["r2"] \in InferLabels
    /\ lock[net["r1"]] = "r2"

\* No request holds the locks of two networks, and a request that is about
\* to call net.Lock() does not hold that lock.
OneLockNoReentry ==
    \A p \in Procs :
        /\ \A n, m \in Nets : lock[n] = p /\ lock[m] = p => n = m
        /\ pc[p] = "lock" => lock[net[p]] # p

\* No request waits for a lock whose holder has stopped.
NoStoppedHolder ==
    \A p, q \in Procs :
        ~(pc[p] = "lock" /\ lock[net[p]] = q /\ pc[q] = "panic")

\* C14 as stated: no request holds two locks or takes a lock it holds, and
\* no request waits for a lock that will never be released.
C14_NoDeadlock == OneLockNoReentry /\ NoStoppedHolder

\* C15 as stated: under fair scheduling every accepted batch comes to its
\* response, with one result for each case and without a lock.
C15_EventuallyDone ==
    \A p \in Procs :
        <>(/\ pc[p] = "done"
           /\ Len(results[p]) = Len(cases[p])
           /\ \A n \in Nets : lock[n] # p)

\* ------------------------------------------------------------------------
\* Properties of the start of the server (SpecLoad).
\* ------------------------------------------------------------------------

Registered == {nets[i] : i \in 1..Len(nets)}

\* The registered networks have distinct names, and a network closed as a
\* duplicate is not registered and came after the registered one of its name.
OnlyTheFirst ==
    /\ \A i, j \in 1..Len(nets) : nets[i].name = nets[j].name => i = j
    /\ \A c \in closed :
         /\ c \notin Registered
         /\ c.id \notin netlocks
         /\ \A f \in Registered : f.name = c.name => f.id < c.id

\* A step that closes a network leaves the registry as it is; a step that
\* changes the list of networks appends one network, which gets the next
\* index.
RejectOrAppend ==
    /\ closed' # closed =>
         /\ nets' = nets
         /\ lookup' = lookup
         /\ netlocks' = netlocks
    /\ nets' # nets =>
         /\ Len(nets') = Len(nets) + 1
         /\ SubSeq(nets', 1, Len(nets)) = nets
         /\ closed' = closed
         /\ lookup'[Itoa(Len(nets))] = nets'[Len(nets')]
         /\ lookup'[nets'[Len(nets')].name] = nets'[Len(nets')]

\* C16: of two network files that declare the same name the second is
\* closed and not registered; the rejected load changes neither the list of
\* networks nor any lookup key, and the next accepted network gets the next
\* consecutive 0-based index.
C16_DuplicateRejected == []OnlyTheFirst /\ [][RejectOrAppend]_vars

\* A duplicate was closed and a network that came after it is registered.
C16_Witness ==
    \E c \in closed : \E i, j \in 1..Len(nets) :
        /\ nets[i].name = c.name
        /\ nets[j].id > c.id
        /\ j = i + 1
        /\ lookup[Itoa(j - 1)] = nets[j]

\* C17: once loading is complete every registered network is found under
\* its name and under the decimal string of its index, and a network was
\* closed as a duplicate only if a registered network has its name.
C17_NameAndIndexAgree ==
    phase \in {"build", "serving"} =>
        /\ \A i \in 1..Len(nets) :
             /\ lookup[nets[i].name] = nets[i]
             /\ lookup[Itoa(i - 1)] = nets[i]
        /\ \A c \in closed : \E f \in Registered : f.name = c.name

\* The node getNetNode answers with for the identifiers of the response.
DescribedNode ==
    LET described == netsJSON[resp.netID].nodes
        at == DescribedAt(described, resp.nodeID)
    IN  IF at > 0 THEN [status |-> "ok", node |-> described[at]]
        ELSE [status |-> "notfound", node |-> Empty]

\* The node postNetNode infers for the identifiers of the response.
TargetNode ==
    PostNode(LoadNodes(lookup[resp.netID].name), netsJSON[resp.netID].nodes,
             resp.nodeID)

\* C18: for a described network, the describe-node request and the
\* inference request resolve a node identifier to the same node, or both
\* to none.
C18_SameNodeBothWays ==
    /\ resp.handler = "postNetNode" /\ resp.netID \in DOMAIN netsJSON =>
         /\ (resp.status = "ok") = (DescribedNode.status = "ok")
         /\ resp.status = "ok" => resp.body.node = DescribedNode.node
    /\ resp.handler = "getNetNode" /\ resp.netID \in DOMAIN netsJSON =>
         /\ (resp.status = "ok") = (TargetNode.status = "ok")
         /\ resp.status = "ok" => resp.body.name = TargetNode.node

\* The network of the response is not registered.
UnknownNet == resp.netID \notin DOMAIN lookup

\* The node identifier of the response is no name of a node of the network
\* and no index of its node list.
UnknownNode ==
    LET names == LoadNodes(lookup[resp.netID].name)
        a == Atoi(resp.nodeID)
    IN  /\ resp.nodeID \notin names
        /\ a.ok => a.wide \/ a.val < 0 \/ a.val >= Cardinality(names)

\* C19: a request that names an unknown network or an unknown node is
\* answered with not-found, and no lock is held and no finding is entered
\* for it.
C19_UnknownIsNotFound ==
    /\ resp.handler \in {"getNet", "getNetNodes", "getNetNode", "postNetNode"}
         /\ UnknownNet => resp.status = "notfound"
    /\ resp.handler \in {"getNetNode", "postNetNode"} /\ ~UnknownNet /\ UnknownNode =>
         /\ resp.status = "notfound"
         /\ \A n \in Nets : lock[n] = "none" /\ NoFindings(n)

\* The files of the directory that the walk has passed.
Passed == {walk[i] : i \in 1..visited}

\* Files that NewNetwork fails on.
BadFiles == {f \in Passed : f.kind = "bad"}

\* Network files whose name no earlier network file declares and no index
\* string of the registry can equal.
FirstOfName(f) ==
    /\ f.kind = "net"
    /\ f.name \in {NameN1, NameN2}
    /\ \A i \in 1..Len(walk) : walk[i].kind = "net" /\ walk[i].name = f.name => f.id <= walk[i].id

\* C20: a file that NewNetwork fails on is logged and not registered, the
\* walk goes on to the end of the directory and the server goes on to
\* describe the networks, and every first network file of a name, before or
\* after the failing file, is registered.
C20_BadFileSkipped ==
    /\ \A f \in BadFiles :
         /\ \E i \in 1..Len(logged) : logged[i] = f.id
         /\ f \notin Registered
         /\ f \notin closed
         /\ f.id \notin netlocks
    /\ \A f \in Passed : FirstOfName(f) => f \in Registered
    /\ phase \in {"build", "serving"} => visited = Len(walk)
    /\ phase = "crashed" => ThisFile.kind = "gone"

\* The load is complete, and networks before and after a failing file are
\* registered.
C20_Witness ==
    /\ phase = "serving"
    /\ \E f \in BadFiles : \E g, h \in Registered : g.id < f.id /\ f.id < h.id

\* ------------------------------------------------------------------------
\* Properties of the library's operations, continued (SpecLibrary).
\* ------------------------------------------------------------------------

\* The nodes of the caller's network that have a key in its case map.
NamedNodes == NodeNames(net[Caller]) \cap DOMAIN cm[Caller]

\* C21: EnterCase enters evidence only on nodes of the network that have a
\* key in the case map: a key that matches no node gives no error and no
\* finding, and when EnterCase succeeds a node without a key has the
\* finding it had before the call.
C21_OnlyNamedNodes ==
    /\ obs.op = "EnterCase" /\ cur[Caller] # Empty => cur[Caller] \in NamedNodes
    /\ ReturnedFrom("EnterCase") /\ err[Caller] # NoErr => NamedNodes # {}
    /\ ReturnedFrom("EnterCase") /\ err[Caller] = NoErr =>
         \A name \in NodeNames(net[Caller]) \ DOMAIN cm[Caller] :
             findings[net[Caller]][name] = obs.pre[name]

\* EnterCase has succeeded on n2 with a case map that has a key for b, which
\* n2 does not have, while the node c, which has no key, kept its finding.
C21_Witness ==
    /\ ReturnedFrom("EnterCase")
    /\ err[Caller] = NoErr
    /\ net[Caller] = "n2"
    /\ NameB \in DOMAIN cm[Caller]
    /\ obs.pre[NameC] # NoFinding
    /\ findings["n2"][NameC] = obs.pre[NameC]
    /\ findings["n2"][NameA] # obs.pre[NameA]

\* ------------------------------------------------------------------------
\* Properties of the server, continued (Spec).
\* ------------------------------------------------------------------------

\* C22: an operation that drains a report from the engine's error queue
\* fails: when the ClearCases of the batch loop has returned an error, the
\* case is recorded with an error.
C22_DrainedErrorFails ==
    \A p \in Procs :
        pc[p] = "pn_unlock" /\ err[p] # NoErr => sav[p] # NoErr

\* ------------------------------------------------------------------------
\* Properties of the start of the server, continued (SpecLoad).
\* ------------------------------------------------------------------------

\* C23: the listing of the networks is in ascending order of the networks'
\* names, whatever the order in which the walk loaded them.
C23_ListedByName ==
    resp.handler = "getNets" =>
        \A i, j \in 1..Len(resp.body) :
            i < j => StrLess(resp.body[i].name, resp.body[j].name)

\* ------------------------------------------------------------------------
\* Properties of the round trip of a finding (SpecRoundTrip).
\* ------------------------------------------------------------------------

\* ClearFindings has returned, and the call before it was EnterFinding on
\* the same node.
RoundTripDone ==
    /\ ReturnedFrom("ClearFindings")
    /\ obs.last.op = "EnterFinding"
    /\ obs.last.net = net[Caller]
    /\ obs.last.node = cur[Caller]

\* C24 as stated: after EnterFinding with valid evidence and ClearFindings
\* the node has the finding it had before EnterFinding.
C24_RoundTripRestores ==
    RoundTripDone /\ obs.last.err = NoErr =>
        Finding(Caller) = obs.last.pre[cur[Caller]]

\* C24: after EnterFinding and ClearFindings the node has no finding,
\* whatever it had before; ClearFindings returns no error.
C24_RoundTripClears ==
    RoundTripDone =>
        /\ Finding(Caller) = NoFinding
        /\ err[Caller] = NoErr

\* The round trip has been made with valid evidence on a node that had a
\* finding before, and EnterFinding had entered the evidence.
C24_Witness ==
    /\ RoundTripDone
    /\ obs.last.err = NoErr
    /\ obs.last.pre[cur[Caller]] # NoFinding
    /\ obs.pre[cur[Caller]] # NoFinding
    /\ obs.pre[cur[Caller]] # obs.last.pre[cur[Caller]]

\* ------------------------------------------------------------------------
\* Properties of NewNetwork and CloseNetwork (SpecNetworks).
\* ------------------------------------------------------------------------

\* The networks NewNetwork has returned and CloseNetwork was not called on.
OpenNetworks == {nets[i] : i \in 1..Len(nets)} \ closed

\* C25: after any sequence of NewNetwork and CloseNetwork calls (the
\* environment is open), the lock table has an entry for exactly the
\* networks that were loaded and are not closed: none for a path NewNetwork
\* failed on, none for a closed network.
C25_OneLockPerOpenNetwork ==
    phase # "closed" =>
        /\ netlocks = {f.id : f \in OpenNetworks}
        /\ \A i \in 1..Len(logged) : logged[i] \notin netlocks
        /\ \A f \in closed : f.id \notin netlocks

\* One network is open, one has been closed and one load has failed.
C25_Witness ==
    /\ OpenNetworks # {}
    /\ closed # {}
    /\ logged # <<>>
    /\ \E f \in closed : \E g \in OpenNetworks : f.id < g.id

\* ------------------------------------------------------------------------
\* Properties of the descriptions (SpecLoad).
\* ------------------------------------------------------------------------

\* C26: every description that is published, in the listing or under a
\* key, is of a network whose nodes were all described: it holds the whole
\* node list of the network.
C26_NoPartialDescription ==
    phase = "serving" =>
        /\ \A k \in DOMAIN netsJSON :
               netsJSON[k].nodes = NodesOf(nets[netsJSON[k].index + 1])
        /\ \A i \in 1..Len(netJSONList) :
               /\ netJSONList[i].name \in DOMAIN netsJSON
               /\ netsJSON[netJSONList[i].name].nodes
                      = NodesOf(nets[netJSONList[i].index + 1])

\* ------------------------------------------------------------------------
\* Properties of concurrent requests on different networks (Spec).
\* ------------------------------------------------------------------------

\* The requests whose engine calls raised the reports of an error.
Reporters(e) == {e.from[i] : i \in 1..Len(e.from)}

\* C27: the error of a case's result holds no report that the engine raised
\* for a call of a request on another network.
C27_OwnErrorsOnly ==
    \A p \in Procs : \A i \in 1..Len(results[p]) :
        \A q \in Reporters(results[p][i].error) : net[q] = net[p]

\* ------------------------------------------------------------------------
\* Properties of results used as evidence (SpecLibrary).
\* ------------------------------------------------------------------------

\* The states of the caller's node whose token is the string s.
StatesWithToken(s) ==
    {k \in 0..(Len(Def(Caller).states) - 1) : StateToken(Def(Caller), k) = s}

\* EnterFinding has returned, and its evidence is the string that Infer,
\* called just before on the same node, returned for a state.
EnteredInferred ==
    /\ ReturnedFrom("EnterFinding")
    /\ obs.last.op = "Infer"
    /\ obs.last.net = net[Caller]
    /\ obs.last.node = cur[Caller]
    /\ obs.last.err = NoErr
    /\ obs.ev = obs.last.ret
    /\ StatesWithToken(obs.ev) # {}

\* C28: the string Infer returns for state k of a node, given to
\* EnterFinding on that node, enters state k or fails with an error of the
\* engine; it never enters anything else.
C28_ResultIsEvidence ==
    EnteredInferred =>
        /\ err[Caller] = NoErr =>
               \E k \in StatesWithToken(obs.ev) :
                   Finding(Caller) = StateFinding(k, <<Caller, 0>>)
        /\ err[Caller] # NoErr => err[Caller].k = "engine"

\* The caller's case map gives evidence str for a node that is neither a
\* number nor a state index nor the name of a state of the node.
NamesNoState(def, str) ==
    /\ ~ParsedFloat(str).ok
    /\ ~(HasHashPrefix(str) /\ Atoi(Tail(str)).ok)
    /\ GetStateNamed_bn(def, str) = UNDEF_STATE

\* The caller's case map has a key of a node of the network whose evidence
\* names no state.
HasUndefinedEvidence ==
    \E name \in NamedNodes :
        NamesNoState(NodeDef(net[Caller], name), cm[Caller][name])

\* C29: whatever the order in which EnterCase visits the nodes, it fails
\* when the case map gives an undefined state for a node of the network and
\* otherwise only on an error of the engine; when it succeeds every node
\* with a key has the finding its evidence stands for, and when it fails the
\* network has no findings.
C29_OrderIrrelevant ==
    ReturnedFrom("EnterCase") =>
        /\ HasUndefinedEvidence => err[Caller] # NoErr
        /\ err[Caller] # NoErr =>
               /\ err[Caller].k = "engine" \/ HasUndefinedEvidence
               /\ NoFindings(net[Caller])
        /\ err[Caller] = NoErr =>
               \A name \in NamedNodes :
                   findings[net[Caller]][name] =
                       EvidenceFinding(NodeDef(net[Caller], name),
                                       cm[Caller][name], <<Caller, 0>>)

\* EnterCase on n1 is at the node a, whose evidence names no state, after
\* it entered the evidence of b, the node it visited first.
C29_SecondVisited ==
    /\ obs.op = "EnterCase"
    /\ net[Caller] = "n1"
    /\ pc[Caller] = "sn_check"
    /\ cur[Caller] = NameA
    /\ HasUndefinedEvidence
    /\ todo[Caller] = {}
    /\ findings[net[Caller]][NameB] # NoFinding
    /\ obs.pre[NameB] = NoFinding

\* EnterCase on n1 is at the node a, whose evidence names no state, and has
\* the node b still to visit.
C29_FirstVisited ==
    /\ obs.op = "EnterCase"
    /\ pc[Caller] = "sn_check"
    /\ cur[Caller] = NameA
    /\ HasUndefinedEvidence
    /\ todo[Caller] = {NameB}

\* EnterCase has failed with the undefined-state error on a case map with
\* keys for two nodes of n1, and the network has no findings.
C29_Witness ==
    /\ ReturnedFrom("EnterCase")
    /\ err[Caller] = UndefStateErr
    /\ net[Caller] = "n1"
    /\ NamedNodes = {NameA, NameB}
    /\ NoFindings("n1")

\* ------------------------------------------------------------------------
\* Properties of the start of the server, continued (SpecLoad).
\* ------------------------------------------------------------------------

\* A request was answered only by a server whose walk over the directory is
\* through and whose descriptions are built from the networks it loaded.
AnsweredAfterStart ==
    ~Unanswered =>
        /\ phase = "serving"
        /\ visited = Len(walk)
        /\ Len(netJSONList) <= Len(nets)
        /\ \A key \in DOMAIN netsJSON : key \in DOMAIN lookup

\* A step of a server that takes requests, and every step that answers a
\* request, leaves the network list, the lookup map, the descriptions and
\* the lock table as they are.
RegistryFrozen ==
    phase = "serving" \/ resp' # resp =>
        /\ phase = "serving"
        /\ UNCHANGED <<nets, lookup, netJSONList, netsJSON, netlocks>>

\* C30: no request is handled before the networks are loaded and indexed
\* and the descriptions are built, and once the server takes requests the
\* network list, the lookup map, the descriptions and the lock table are
\* never modified.
C30_ServeAfterLoad == []AnsweredAfterStart /\ [][RegistryFrozen]_vars

\* A started server with two networks has answered a request for a node.
C30_Witness ==
    /\ phase = "serving"
    /\ Len(nets) = 2
    /\ Cardinality(netlocks) = 2
    /\ resp.handler = "postNetNode"
    /\ resp.status = "ok"

====
